---- MODULE Spec2Model ----
(***************************************************************************)
(* The command execution engine of src/backend/terminal_manager.py         *)
(* (class TerminalManager) as a state machine.                             *)
(*                                                                         *)
(* One action is the code that runs between two suspension points of the   *)
(* asyncio event loop: the awaits on the child process (spawn, pipe reads, *)
(* communicate, wait) and asyncio.sleep.  The notification sink is called  *)
(* inside the action that reaches it; each call of a sink that is set      *)
(* either completes or raises.                                             *)
(*                                                                         *)
(* Text is a sequence of symbols.  What a child process writes is a        *)
(* sequence of one-character strings (ASCII bytes, or the two bytes of a   *)
(* UTF-8 encoded e-acute); a literal of one of the engine's own messages   *)
(* is one symbol.                                                          *)
(***************************************************************************)
EXTENDS Integers, Sequences, FiniteSets, TLC

(***************************************************************************)
(* Bounds of the model.                                                    *)
(***************************************************************************)
\* executions (calls of execute_command) in one behaviour of SpecConcurrent
MaxExec == 2
\* executions in one behaviour of Spec
MaxSolo == 1
\* writes one child process makes to its pipes in Spec
MaxWrites == 2
\* writes one child process makes to its pipes in SpecConcurrent
MaxWritesConcurrent == 1
\* last value of the clock, in ticks
MaxNow == 1
\* calls of shutdown in one behaviour of SpecShutdown
MaxShutdowns == 2
\* last value of the clock in SpecStreaming, in ticks
MaxStreamNow == 3
\* writes the child process makes to its pipes in SpecStreaming
MaxStreamWrites == 3
\* characters of a command given to _clean_command in SpecCleaner
MaxCommandLen == 4
\* entries of the command history in SpecStatus
MaxHistory == 12

(***************************************************************************)
(* Program constants.                                                      *)
(***************************************************************************)
\* __init__: command_timeout: int = 300
command_timeout == 300
\* hash(docker_command) % 10000
HashModulus == 10000
\* __init__: streaming_interval: float = 0.5, in clock ticks (one tick is 0.5 s)
streaming_interval == 1
\* clock ticks in one second: int(time.time()) is now \div TicksPerSecond
TicksPerSecond == 2
\* process.stdout.read(1024), process.stderr.read(1024)
ReadSize == 1024
\* process.terminate() sends SIGTERM; a child it ends has returncode -SIGTERM
SIGTERM == 15
\* get_status: get_command_history()[-10:], get_output_history()[-10:]
StatusWindow == 10

Execs == 1..MaxExec

(***************************************************************************)
(* Text.                                                                   *)
(***************************************************************************)
\* Python: k in s, for strings
Contains(s, k) ==
    \E i \in 0..(Len(s) - Len(k)) : \A j \in 1..Len(k) : s[i + j] = k[j]

RECURSIVE Join(_)
\* Python: "".join(chunks)
Join(chunks) ==
    IF chunks = <<>> THEN <<>> ELSE Head(chunks) \o Join(Tail(chunks))

DigitChar(d) ==
    CASE d = 0 -> "0" [] d = 1 -> "1" [] d = 2 -> "2" [] d = 3 -> "3"
      [] d = 4 -> "4" [] d = 5 -> "5" [] d = 6 -> "6" [] d = 7 -> "7"
      [] d = 8 -> "8" [] d = 9 -> "9"

RECURSIVE DecStr(_)
\* Python: str(n) for an int n >= 0, as it appears in an f-string
DecStr(n) ==
    IF n < 10 THEN <<DigitChar(n)>>
    ELSE DecStr(n \div 10) \o <<DigitChar(n % 10)>>

\* the two bytes of UTF-8 e-acute, and what decoding yields
ByteC3 == "\\xc3"
ByteA9 == "\\xa9"
EAcute == "e-acute"
Replacement == "U+FFFD"

RECURSIVE Decode(_)
\* bytes.decode('utf-8', errors='replace')
Decode(b) ==
    IF b = <<>> THEN <<>>
    ELSE IF Head(b) = ByteC3
         THEN IF Len(b) >= 2 /\ b[2] = ByteA9
              THEN <<EAcute>> \o Decode(Tail(Tail(b)))
              ELSE <<Replacement>> \o Decode(Tail(b))
         ELSE IF Head(b) = ByteA9
              THEN <<Replacement>> \o Decode(Tail(b))
              ELSE <<Head(b)>> \o Decode(Tail(b))

(***************************************************************************)
(* The output classifier.                                                  *)
(***************************************************************************)
error_keywords ==
    << <<"e","r","r","o","r",":">>,
       <<"E","r","r","o","r",":">>,
       <<"E","R","R","O","R",":">>,
       <<"e","x","c","e","p","t","i","o","n",":">>,
       <<"E","x","c","e","p","t","i","o","n",":">>,
       <<"E","X","C","E","P","T","I","O","N",":">>,
       <<"f","a","i","l","e","d",":">>,
       <<"F","a","i","l","e","d",":">>,
       <<"F","A","I","L","E","D",":">>,
       <<"c","o","m","m","a","n","d"," ","n","o","t"," ","f","o","u","n","d">>,
       <<"N","o"," ","s","u","c","h"," ","f","i","l","e"," ","o","r"," ",
         "d","i","r","e","c","t","o","r","y">>,
       <<"P","e","r","m","i","s","s","i","o","n"," ","d","e","n","i","e","d">>,
       <<"f","a","t","a","l",":">>,
       <<"T","r","a","c","e","b","a","c","k"," ","(","m","o","s","t"," ",
         "r","e","c","e","n","t"," ","c","a","l","l"," ","l","a","s","t",")">> >>

\* _detect_error_in_output: any(keyword in output for keyword in error_keywords)
detect_error_in_output(output) ==
    \E n \in 1..Len(error_keywords) : Contains(output, error_keywords[n])

(***************************************************************************)
(* Commands, paths and the command line handed to the shell.               *)
(***************************************************************************)
Whitespace == {" ", "\t", "\n"}

RECURSIVE LStrip(_)
LStrip(s) ==
    IF s # <<>> /\ Head(s) \in Whitespace THEN LStrip(Tail(s)) ELSE s

RECURSIVE RStrip(_)
RStrip(s) ==
    IF s # <<>> /\ s[Len(s)] \in Whitespace
    THEN RStrip(SubSeq(s, 1, Len(s) - 1)) ELSE s

\* Python: s.strip()
Strip(s) == RStrip(LStrip(s))

RECURSIVE ReplaceContinuations(_)
\* Python: s.replace("\\\n", " ")
ReplaceContinuations(s) ==
    IF s = <<>> THEN <<>>
    ELSE IF Len(s) >= 2 /\ s[1] = "\\" /\ s[2] = "\n"
         THEN <<" ">> \o ReplaceContinuations(Tail(Tail(s)))
         ELSE <<Head(s)>> \o ReplaceContinuations(Tail(s))

RECURSIVE CollapseWhitespace(_)
\* Python: re.sub(r'\s+', ' ', s)
CollapseWhitespace(s) ==
    IF s = <<>> THEN <<>>
    ELSE IF Head(s) \in Whitespace
         THEN <<" ">> \o CollapseWhitespace(LStrip(s))
         ELSE <<Head(s)>> \o CollapseWhitespace(Tail(s))

\* _clean_command
clean_command(command) ==
    CollapseWhitespace(ReplaceContinuations(Strip(command)))

\* Python: s.startswith(prefix)
StartsWith(s, prefix) ==
    Len(s) >= Len(prefix) /\ SubSeq(s, 1, Len(prefix)) = prefix

RECURSIVE EscapeQuotes(_)
\* Python: command.replace("'", "'\\''")
EscapeQuotes(s) ==
    IF s = <<>> THEN <<>>
    ELSE IF Head(s) = "'"
         THEN <<"'", "\\", "'", "'">> \o EscapeQuotes(Tail(s))
         ELSE <<Head(s)>> \o EscapeQuotes(Tail(s))

\* the index of the last "/" of a path, 0 without one: p.rfind('/') + 1
LastSlash(p) ==
    IF \E i \in 1..Len(p) : p[i] = "/"
    THEN CHOOSE i \in 1..Len(p) :
             p[i] = "/" /\ \A j \in (i + 1)..Len(p) : p[j] # "/"
    ELSE 0

\* head.rstrip('/')
RStripSlashes(p) ==
    IF \E i \in 1..Len(p) : p[i] # "/"
    THEN SubSeq(p, 1, CHOOSE i \in 1..Len(p) :
                         p[i] # "/" /\ \A j \in (i + 1)..Len(p) : p[j] = "/")
    ELSE <<>>

\* os.path.dirname (posixpath): the path up to its last "/", without the
\* trailing slashes unless it is made of slashes only
dirname(p) ==
    LET head == SubSeq(p, 1, LastSlash(p))
    IN  IF head # <<>> /\ \E i \in 1..Len(head) : head[i] # "/"
        THEN RStripSlashes(head) ELSE head

\* os.path.join(a, b) (posixpath)
join(a, b) ==
    IF b # <<>> /\ b[1] = "/" THEN b
    ELSE IF a = <<>> \/ a[Len(a)] = "/" THEN a \o b
    ELSE a \o <<"/">> \o b

\* os.path.isabs
IsAbsolute(p) == p # <<>> /\ p[1] = "/"

\* the names of a path, one symbol a name, in order
Components(p) == SelectSeq(p, LAMBDA t : t # "/")

\* the directories of the container, each as its names from the root
Directories ==
    { <<>>, <<"workspace">>, <<"workspace", "sub">>, <<"tmp">> }

\* what '[ -d new_dir ] && echo exists' can answer: for an absolute path,
\* whether it names a directory of the container; a relative path is
\* resolved in the container's default directory, which the engine does not
\* set: either answer
CheckResults(new_dir) ==
    IF IsAbsolute(new_dir)
    THEN {Components(new_dir) \in Directories}
    ELSE BOOLEAN

\* A path is the sequence of its parts, an absolute one starting with "/".
\* The empty sequence is the empty string; None is not told apart from it,
\* as the code tests a path argument only for truth.
NoDir == <<>>
WorkspaceDir == <<"/", "workspace">>
TmpDir == <<"/", "tmp">>
\* a working_dir argument that is a relative path
RelDir == <<"rel">>

terminal_container_name == "ai_agent_terminal"

\* Python: timeout or self.command_timeout (None and 0 are false)
TimeoutOr(timeout, default) == IF timeout # 0 THEN timeout ELSE default

\* _prepare_docker_command:
\*   f"docker exec -w {cwd} {container} bash -c '{escaped_command}'"
prepare_docker_command(command, working_dir, current_dir) ==
    [cwd |-> IF working_dir # NoDir THEN working_dir ELSE current_dir,
     container |-> terminal_container_name,
     command |-> EscapeQuotes(command)]

NoCommand == [cwd |-> NoDir, container |-> "", command |-> <<>>]

\* hash(docker_command): a fixed function of the string within one run of
\* the interpreter (which one depends on the hash seed); equal strings have
\* equal hashes.
hash(docker_command) ==
    IF docker_command.cwd = WorkspaceDir THEN 7120001 ELSE 3350002

\* process_id = f"process_{int(time.time())}_{hash(docker_command) % 10000}"
ProcessId(t, docker_command) ==
    <<t \div TicksPerSecond, hash(docker_command) % HashModulus>>

NoProcessId == <<>>

\* the text of a process id, as it appears in a message
ProcessIdText(pid) ==
    <<"process_">> \o DecStr(pid[1]) \o <<"_">> \o DecStr(pid[2])

(***************************************************************************)
(* Inputs.                                                                 *)
(***************************************************************************)
\* the commands a caller submits
Commands == { <<"l","s">>, <<" ","l","s","\n">> }
\* timeout arguments; 0 stands for None
TimeoutArgs == {0, 1}
\* working_dir arguments
WorkingDirArgs == {NoDir, TmpDir}
\* what a child process writes in one write
ChunkSet == { <<"f","a","t">>, <<"a","l",":">> }
\* exit codes of a child that ends by itself
ExitCodes == {0, 1}
\* directory changes: into a subdirectory that exists, the same with a
\* trailing slash, up, to an absolute path that exists, to an absolute path
\* that does not, into a subdirectory that does not
CdCommands ==
    { <<"c","d"," ","sub">>, <<"c","d"," ","sub","/">>,
      <<"c","d"," ",".",".">>, <<"c","d"," ","/","tmp">>,
      <<"c","d"," ","/","nope">>, <<"c","d"," ","nope">> }
\* working_dir arguments of a directory change
CdWorkingDirArgs == {NoDir, RelDir}
\* package installs: of one package, of two, with an option before the
\* package, from a requirements file, with npm, with yarn and an option
\* after the package, and a global one
InstallCommands ==
    { <<"p","i","p"," ","i","n","s","t","a","l","l"," ","pkgA">>,
      <<"p","i","p"," ","i","n","s","t","a","l","l"," ","pkgA"," ","pkgB">>,
      <<"p","i","p"," ","i","n","s","t","a","l","l"," ","-","-","upgrade"," ","pkgA">>,
      <<"p","i","p","3"," ","i","n","s","t","a","l","l"," ","-","r"," ","reqs">>,
      <<"n","p","m"," ","i","n","s","t","a","l","l"," ","pkgA">>,
      <<"y","a","r","n"," ","a","d","d"," ","pkgA"," ","-","-","dev">>,
      <<"n","p","m"," ","i","n","s","t","a","l","l"," ","-","g"," ","pkgA">> }
\* installs with pip of one package, and of that package with another
PipCommands ==
    { <<"p","i","p"," ","i","n","s","t","a","l","l"," ","pkgA">>,
      <<"p","i","p"," ","i","n","s","t","a","l","l"," ","pkgA"," ","pkgB">> }
\* the characters of the commands given to _clean_command: a letter, a
\* space, a backslash and a newline
CleanerAlphabet == {"l", " ", "\\", "\n"}
\* the commands given to _clean_command: of MaxCommandLen characters at most
CleanerCommands ==
    UNION {[1..n -> CleanerAlphabet] : n \in 0..MaxCommandLen}
\* timeout arguments of a package install: an override of the default
InstallTimeoutArgs == {1}
\* pieces of output: markers of the classifier as it lists them, the same
\* in other mixtures of case, and text that holds no marker
OutputPieces ==
    { <<"e","r","r","o","r",":">>, <<"E","R","R","O","R",":">>,
      <<"e","R","R","O","R",":">>, <<"e","r","r","o","r">>,
      <<"E","x","c","e","p","t","i","o","n",":">>,
      <<"e","x","c","e","p","t","i","o","N",":">>,
      <<"f","a","t","a","l",":">>, <<"F","a","t","a","l",":">>,
      <<"F","A","I","L","E","D",":">>,
      <<"P","e","r","m","i","s","s","i","o","n"," ","d","e","n","i","e","d">>,
      <<"o","k","\n">> }
\* the outputs given to the classifier: at most two pieces
Outputs ==
    {<<>>} \cup OutputPieces
    \cup {a \o b : a \in OutputPieces, b \in OutputPieces}

(***************************************************************************)
(* State.                                                                  *)
(***************************************************************************)
VARIABLES
    now,                \* time.time(), in ticks
    broadcast_message,  \* "None", or "set" once a sink is installed
    command_history,
    output_history,
    working_directory,
    running_processes,  \* process id -> the execution whose record is stored
    record,             \* the record object each execution creates
    proc,               \* the child process each execution spawns
    call,               \* the frame of each execute_command call
    stream,             \* the frame of each _stream_process_output call
    mon,                \* the frame of each _monitor_background_process task
    events,             \* the calls of the sink, per execution
    shut,               \* the frame of shutdown
    listed,             \* what the last get_running_processes returned
    installed_packages, \* the packages installed, per package manager
    classifier,         \* an output, and what _detect_error_in_output made of it
    cleaner,            \* a command, and what _clean_command made of it
    status              \* the terminal history of the last get_status

vars == <<now, broadcast_message, command_history, output_history,
          working_directory, running_processes, record, proc, call, stream,
          mon, events, shut, listed, installed_packages, classifier,
          cleaner, status>>

NoRecord ==
    [command |-> NoCommand, start_time |-> 0, background |-> FALSE,
     timeout |-> 0, output |-> <<>>]

NoProc ==
    [state |-> "none", returncode |-> 0, stdout |-> <<>>, stderr |-> <<>>,
     sigterm |-> FALSE, ignores_term |-> FALSE, writes |-> 0,
     written |-> <<>>]

\* pc, the arguments, the locals and the result (success, output) of a
\* call; and two history fields: failure, the first failure the call met
\* ("none", "spawn", "timeout", "sink", "read"), and captured, the output
\* the engine had read from the child when the timeout expired.  For a
\* directory change: new_dir, the local of _handle_cd_command, and two
\* more history fields: entered_dir, the working directory when the call was
\* made, and preceded_by, the calls that had ended by then.  bound is the
\* timeout parameter of _execute_with_streaming or of _run_local_command.
\* For a package install: manager, the set the handler commits to ("none"
\* when it commits nothing), and its locals packages and new_packages
NoCall ==
    [pc |-> "idle", command |-> <<>>, timeout |-> 0, stream_output |-> TRUE,
     background |-> FALSE, working_dir |-> NoDir,
     docker_command |-> NoCommand, process_id |-> NoProcessId,
     success |-> FALSE, output |-> <<>>,
     failure |-> "none", captured |-> <<>>,
     new_dir |-> NoDir, entered_dir |-> NoDir, preceded_by |-> {},
     bound |-> 0, manager |-> "none", packages |-> <<>>,
     new_packages |-> <<>>]

\* the frame of _stream_process_output: pc, target (the execution whose
\* record and process the frame looked up under its process id), its locals,
\* and two history fields: chunks, the chunks it has read from the pipes,
\* and returned, whether it has returned its string
NoStream ==
    [pc |-> "none", target |-> 0, accumulated_output |-> <<>>,
     last_update_time |-> 0, stdout_chunk |-> <<>>,
     chunks |-> <<>>, returned |-> FALSE]

\* pc; items, the records of the snapshot list(self.running_processes.items())
\* the loop has not reached yet; waiting_for, the record whose process the
\* loop waits for; calls, the calls made so far; and two history fields:
\* left, the registry as the last call that returned left it, and repeated,
\* whether a call was made with the registry as the call before left it
NoShutdown ==
    [pc |-> "idle", items |-> {}, waiting_for |-> 0, calls |-> 0,
     left |-> <<>>, repeated |-> FALSE]

\* no output was classified
NoClassifier == [output |-> <<>>, result |-> "none"]

\* get_status not called
NoStatus == [history |-> <<>>, called |-> FALSE]

\* no command given to _clean_command
NoCleaner == [command |-> <<>>, cleaned |-> <<>>, called |-> FALSE]

\* the engine as __init__ leaves it
\* the engine as __init__ leaves it, but for its two histories
ConstructedButHistories ==
    /\ now = 0
    /\ broadcast_message = "None"
    /\ working_directory = WorkspaceDir
    /\ running_processes = <<>>
    /\ record = [e \in Execs |-> NoRecord]
    /\ proc = [e \in Execs |-> NoProc]
    /\ call = [e \in Execs |-> NoCall]
    /\ stream = [e \in Execs |-> NoStream]
    /\ mon = [e \in Execs |-> "none"]
    /\ events = [e \in Execs |-> <<>>]
    /\ shut = NoShutdown
    /\ listed = <<>>
    /\ installed_packages = [pip |-> {}, npm |-> {}]

Constructed ==
    /\ ConstructedButHistories
    /\ command_history = <<>>
    /\ output_history = <<>>

Init ==
    /\ Constructed
    /\ classifier = NoClassifier
    /\ cleaner = NoCleaner
    /\ status = NoStatus

(***************************************************************************)
(* The registry.                                                           *)
(***************************************************************************)
\* self.running_processes[process_id] = {...}
Registered(registry, pid, e) ==
    [p \in (DOMAIN registry) \cup {pid} |-> IF p = pid THEN e ELSE registry[p]]

\* if process_id in self.running_processes: del self.running_processes[process_id]
Unregistered(registry, pid) ==
    [p \in (DOMAIN registry) \ {pid} |-> registry[p]]

\* the dict stored in the registry for execution e (lines 549-556): the
\* record and, under "process", the handle of the child, which stands here
\* as the execution whose child it is
ProcessInfo(e) ==
    [k \in {"process"} \cup DOMAIN record[e] |->
        IF k = "process" THEN e ELSE record[e][k]]

\* a copy of a registry dict with every entry
Descriptive_All(info) == info

\* {k: v for k, v in info.items() if k != "process"}
Descriptive(info) ==
    [k \in DOMAIN info \ {"process"} |-> info[k]]

\* get_running_processes: every record without its "process" entry
get_running_processes ==
    [p \in DOMAIN running_processes |->
        Descriptive(ProcessInfo(running_processes[p]))]

\* a caller calls get_running_processes and keeps what it returns
get_running_processes_call ==
    /\ listed' = get_running_processes
    /\ UNCHANGED <<status, cleaner, classifier, installed_packages, now, broadcast_message, command_history, output_history,
                   working_directory, running_processes, record, proc, call,
                   stream, mon, events, shut>>

(***************************************************************************)
(* The notification sink.                                                  *)
(***************************************************************************)
\* _broadcast_terminal_update: nothing without a sink; a sink that is set
\* completes ("ok") or raises ("raise")
SinkOutcomes ==
    IF broadcast_message = "None" THEN {"absent"} ELSE {"ok", "raise"}

\* await self.broadcast_message(message): the call is made whenever a sink
\* is set; raised tells whether the sink raised
Notified(ev, type, kind, outcome) ==
    IF outcome = "absent" THEN ev
    ELSE Append(ev, [type |-> type, kind |-> kind,
                     raised |-> outcome = "raise"])

\* _broadcast_terminal_update("streaming", ...): the message carries
\* "timestamp": int(time.time()); the event keeps the clock in ticks
StreamingNotified(ev, kind, outcome) ==
    IF outcome = "absent" THEN ev
    ELSE Append(ev, [type |-> "streaming", kind |-> kind,
                     raised |-> outcome = "raise", at |-> now])

UpdateDue_Always(current_time, last_update_time) == TRUE

\* if current_time - last_update_time >= self.streaming_interval
UpdateDue(current_time, last_update_time) ==
    current_time - last_update_time >= streaming_interval

\* set_broadcast_function
set_broadcast_function ==
    /\ broadcast_message = "None"
    /\ broadcast_message' = "set"
    /\ UNCHANGED <<status, cleaner, classifier, installed_packages, listed, shut, now, command_history, output_history, working_directory,
                   running_processes, record, proc, call, stream, mon, events>>

(***************************************************************************)
(* The clock and the child processes.                                      *)
(***************************************************************************)
TickUpTo(max_now) ==
    /\ now < max_now
    /\ now' = now + 1
    /\ UNCHANGED <<status, cleaner, classifier, installed_packages, listed, shut, broadcast_message, command_history, output_history,
                   working_directory, running_processes, record, proc, call,
                   stream, mon, events>>

Tick == TickUpTo(MaxNow)

\* a running child writes to one of its pipes
ChildWrite(e, pipe, chunk, max_writes) ==
    /\ proc[e].state = "running"
    /\ proc[e].writes < max_writes
    /\ proc' = [proc EXCEPT ![e][pipe] = @ \o chunk, ![e].writes = @ + 1,
                            ![e].written = Append(@, chunk)]
    /\ UNCHANGED <<status, cleaner, classifier, installed_packages, listed, shut, now, broadcast_message, command_history, output_history,
                   working_directory, running_processes, record, call, stream,
                   mon, events>>

\* a running child ends by itself: its pipes reach end of file, and its
\* exit status waits to be collected
ChildExit(e, code) ==
    /\ proc[e].state = "running"
    /\ proc' = [proc EXCEPT ![e].state = "ended", ![e].returncode = code]
    /\ UNCHANGED <<status, cleaner, classifier, installed_packages, listed, shut, now, broadcast_message, command_history, output_history,
                   working_directory, running_processes, record, call, stream,
                   mon, events>>

\* a child that does not ignore SIGTERM is ended by it
ChildTerminated(e) ==
    /\ proc[e].state = "running"
    /\ proc[e].sigterm
    /\ ~proc[e].ignores_term
    /\ proc' = [proc EXCEPT ![e].state = "ended", ![e].returncode = 0 - SIGTERM]
    /\ UNCHANGED <<status, cleaner, classifier, installed_packages, listed, shut, now, broadcast_message, command_history, output_history,
                   working_directory, running_processes, record, call, stream,
                   mon, events>>

\* the event loop's child watcher collects the exit status of a child that
\* has ended: from now on process.returncode is set and process.wait()
\* returns
ChildReaped(e) ==
    /\ proc[e].state = "ended"
    /\ proc' = [proc EXCEPT ![e].state = "exited"]
    /\ UNCHANGED <<status, cleaner, classifier, installed_packages, listed, shut, now, broadcast_message, command_history, output_history,
                   working_directory, running_processes, record, call, stream,
                   mon, events>>

\* process.terminate(): SIGTERM to a child that has not exited; for one that
\* has, ProcessLookupError, which every caller swallows
Terminated(procs, o) ==
    IF procs[o].state = "running"
    THEN [procs EXCEPT ![o].sigterm = TRUE] ELSE procs

(***************************************************************************)
(* execute_command: entry, dispatch and the two exception handlers.        *)
(***************************************************************************)
\* str(e) of what a failing sink raises, of a failing spawn, and of a read
\* on a pipe another coroutine is already waiting on
SinkErrorText == <<"sink failed">>
SpawnErrorText == <<"[Errno 11] Resource temporarily unavailable">>
ReadErrorText ==
    <<"read() called while another coroutine is already waiting for incoming data">>

ErrorText(cause) ==
    CASE cause = "sink" -> SinkErrorText
      [] cause = "spawn" -> SpawnErrorText
      [] cause = "read" -> ReadErrorText

\* the first failure a call met
Failed(c, cause) == [c EXCEPT !.failure = IF @ = "none" THEN cause ELSE @]

\* the dispatch of execute_command on the cleaned command
Dispatch(cleaned) ==
    IF StartsWith(cleaned, <<"c","d"," ">>) THEN "cd"
    ELSE IF \/ StartsWith(cleaned, <<"p","i","p"," ","i","n","s","t","a","l","l"," ">>)
            \/ StartsWith(cleaned, <<"p","i","p","3"," ","i","n","s","t","a","l","l"," ">>)
         THEN "pip"
    ELSE IF \/ StartsWith(cleaned, <<"n","p","m"," ","i","n","s","t","a","l","l"," ">>)
            \/ StartsWith(cleaned, <<"y","a","r","n"," ","a","d","d"," ">>)
         THEN "npm"
    ELSE "general"

\* execute_command, except Exception: the message, an "error" notification
\* of type "exception", and the result (False, message).  If that
\* notification raises, the exception leaves execute_command.
ExceptionHandled(c, ev, cause, outcome) ==
    LET error_message ==
            <<"Error executing command '">> \o c.command \o <<"': ">>
            \o ErrorText(cause)
    IN  IF outcome = "raise"
        THEN [call |-> [Failed(c, cause) EXCEPT !.pc = "raised"],
              events |-> Notified(ev, "error", "exception", outcome)]
        ELSE [call |-> [Failed(c, cause) EXCEPT
                           !.pc = "returned", !.success = FALSE,
                           !.output = error_message],
              events |-> Notified(ev, "error", "exception", outcome)]

\* execute_command, except asyncio.TimeoutError
TimeoutHandled(c, ev, outcome) ==
    LET error_message ==
            <<"Command '">> \o c.command \o <<"'", " timed out after ">>
            \o DecStr(TimeoutOr(c.timeout, command_timeout)) \o <<" seconds">>
    IN  IF outcome = "raise"
        THEN [call |-> [c EXCEPT !.pc = "raised"],
              events |-> Notified(ev, "error", "timeout", outcome)]
        ELSE [call |-> [c EXCEPT !.pc = "returned", !.success = FALSE,
                                 !.output = error_message],
              events |-> Notified(ev, "error", "timeout", outcome)]

\* a streaming result with the test of the exit code inverted
StreamingSuccess_Inverted(returncode, full_output) ==
    returncode # 0 /\ ~detect_error_in_output(full_output)

\* a non-streaming result decided by the exit code alone
LocalSuccess_ExitCodeOnly(returncode, output) ==
    returncode = 0

\* _execute_with_streaming line 578:
\*   process.returncode == 0 and not self._detect_error_in_output(full_output)
StreamingSuccess(returncode, full_output) ==
    returncode = 0 /\ ~detect_error_in_output(full_output)

\* execute_command line 230: not self._detect_error_in_output(output)
LocalSuccess(returncode, output) ==
    ~detect_error_in_output(output)

\* execute_command up to its first suspension, for a command that is
\* neither a directory change nor a package install: the working_dir
\* override, the command history, the "command" notification, and the spawn
\* of the child by _execute_with_streaming or by _run_local_command
\* (spawned: whether the OS creates the child; ignores: whether the child
\* ignores SIGTERM)
execute_command(e, command, timeout, stream_output, background, working_dir, spawned, ignores) ==
    /\ call[e].pc = "idle"
    /\ \A d \in Execs : d < e => call[d].pc # "idle"
    /\ Dispatch(clean_command(command)) = "general"
    /\ \E o1 \in SinkOutcomes, o2 \in SinkOutcomes :
        LET current_dir ==
                IF working_dir # NoDir THEN working_dir ELSE working_directory
            docker_command ==
                prepare_docker_command(clean_command(command), working_dir,
                                       current_dir)
            c == [call[e] EXCEPT
                    !.command = command, !.timeout = timeout,
                    !.stream_output = stream_output,
                    !.background = background, !.working_dir = working_dir]
            ev == Notified(events[e], "command", "", o1)
            failed ==
                IF o1 = "raise"
                THEN ExceptionHandled(c, ev, "sink", o2)
                ELSE ExceptionHandled(
                         [c EXCEPT !.docker_command = docker_command],
                         ev, "spawn", o2)
        IN  /\ working_directory' = current_dir
            /\ command_history' = Append(command_history, command)
            /\ IF o1 = "raise" \/ ~spawned
               THEN /\ call' = [call EXCEPT ![e] = failed.call]
                    /\ events' = [events EXCEPT ![e] = failed.events]
                    /\ UNCHANGED proc
               ELSE /\ call' = [call EXCEPT ![e] =
                          [c EXCEPT
                             !.docker_command = docker_command,
                             !.bound = TimeoutOr(timeout, command_timeout),
                             !.process_id =
                                 IF stream_output
                                 THEN ProcessId(now, docker_command)
                                 ELSE NoProcessId,
                             !.pc = IF stream_output THEN "spawning"
                                    ELSE "communicate"]]
                    /\ events' = [events EXCEPT ![e] = ev]
                    /\ proc' = [proc EXCEPT ![e] =
                          [NoProc EXCEPT !.state = "running",
                                         !.ignores_term = ignores]]
    /\ UNCHANGED <<status, cleaner, classifier, installed_packages, listed, shut, now, broadcast_message, output_history, running_processes,
                   record, stream, mon>>

(***************************************************************************)
(* _stream_process_output, shared by a foreground call and by the monitor  *)
(* of a background one.  stream[e] is the frame of the call made for       *)
(* execution e; stream[e].target is the execution whose record, and so     *)
(* whose child process, the frame found in the registry under e's id.      *)
(***************************************************************************)
StreamLoopPcs == {"read_stdout", "read_stderr", "sleep"}

PipeOf(pcv) == IF pcv = "read_stdout" THEN "stdout" ELSE "stderr"

\* a read that also waits for every monitor task to finish
PipeReady_AfterMonitors(o, pipe) ==
    /\ proc[o][pipe] # <<>> \/ proc[o].state \in {"ended", "exited"}
    /\ \A d \in Execs : mon[d] \in {"none", "done"}

\* StreamReader.read returns at once when the pipe holds data or is at end
\* of file, and waits otherwise
PipeReady(o, pipe) ==
    proc[o][pipe] # <<>> \/ proc[o].state \in {"ended", "exited"}

\* StreamReader.read raises RuntimeError when it would wait on a pipe that
\* another coroutine already waits on
ReadConflict(e, o, pcv) ==
    /\ ~PipeReady(o, PipeOf(pcv))
    /\ \E d \in Execs \ {e} : stream[d].pc = pcv /\ stream[d].target = o

ArriveOutcome(e, o, pcv) ==
    IF ReadConflict(e, o, pcv) THEN "raised" ELSE "continue"

\* the chunks a loop of _stream_process_output has read so far (history):
\* read() returns b'' at the end of the pipe, which is no chunk
Chunks(chunks, chunk) ==
    IF chunk = <<>> THEN chunks ELSE Append(chunks, chunk)

\* read(1024): at most ReadSize bytes of what the pipe holds
ReadChunk(buffer) ==
    SubSeq(buffer, 1, IF Len(buffer) < ReadSize THEN Len(buffer) ELSE ReadSize)

Unread(buffer) ==
    SubSeq(buffer, Len(ReadChunk(buffer)) + 1, Len(buffer))

\* the elements of a list
Range(list) == {list[i] : i \in DOMAIN list}

\* an install handler that adds the packages whatever the result
Commit_Always(success, installed, new_packages) ==
    installed \cup Range(new_packages)

\* if success: self.installed_packages[manager].update(new_packages)
Commit(success, installed, new_packages) ==
    IF success THEN installed \cup Range(new_packages) ELSE installed

\* _execute_with_streaming, lines 570-587, after the stream returned; and,
\* in an install handler, the update of the installed packages with the
\* result it returns
ForegroundCompleted(e, ev, full_output, o3, o4) ==
    LET success == StreamingSuccess(proc[e].returncode, full_output)
        done == [call[e] EXCEPT !.pc = "returned", !.success = success,
                                !.output = full_output]
        r == IF o3 = "raise"
             THEN ExceptionHandled(call[e],
                      Notified(ev, "output",
                          IF success THEN "success" ELSE "failure", o3),
                      "sink", o4)
             ELSE [call |-> done,
                   events |-> Notified(ev, "output",
                                 IF success THEN "success" ELSE "failure", o3)]
    IN  /\ running_processes' =
            Unregistered(running_processes, call[e].process_id)
        /\ output_history' = Append(output_history, full_output)
        /\ call' = [call EXCEPT ![e] = r.call]
        /\ events' = [events EXCEPT ![e] = r.events]
        /\ installed_packages' =
              IF call[e].manager # "none" /\ o3 # "raise"
              THEN [installed_packages EXCEPT ![call[e].manager] =
                       Commit(success, @, call[e].new_packages)]
              ELSE installed_packages
        /\ UNCHANGED mon

\* _monitor_background_process, lines 715-725 and the finally clause
MonitorCompleted(e, ev, full_output, o3, o4) ==
    LET o == stream[e].target
        success == StreamingSuccess(proc[o].returncode, full_output)
        ev1 == Notified(ev, "background_complete",
                        IF success THEN "success" ELSE "failure", o3)
        ev2 == IF o3 = "raise"
               THEN Notified(ev1, "background_error", "", o4) ELSE ev1
    IN  /\ running_processes' =
            Unregistered(running_processes, call[e].process_id)
        /\ events' = [events EXCEPT ![e] = ev2]
        /\ mon' = [mon EXCEPT ![e] = "done"]
        /\ UNCHANGED <<call, output_history, installed_packages>>

\* an exception leaves _stream_process_output: in a foreground call it
\* reaches execute_command's except Exception (lines 259-270); in a monitor
\* its own except Exception and finally (lines 746-762)
StreamRaised(e, ev, cause, o3) ==
    IF call[e].background
    THEN /\ running_processes' =
              Unregistered(running_processes, call[e].process_id)
         /\ events' = [events EXCEPT ![e] =
              Notified(ev, "background_error", "", o3)]
         /\ mon' = [mon EXCEPT ![e] = "done"]
         /\ UNCHANGED <<call, output_history, installed_packages>>
    ELSE LET r == ExceptionHandled(call[e], ev, cause, o3)
         IN  /\ call' = [call EXCEPT ![e] = r.call]
             /\ events' = [events EXCEPT ![e] = r.events]
             /\ UNCHANGED <<mon, running_processes, output_history,
                           installed_packages>>

\* how one step of the stream loop ends: at its next suspension
\* ("continue"), by an exception ("raised") or by the return of the
\* accumulated output ("completed")
StreamEnds(e, st, ev, outcome, cause, o3, o4) ==
    CASE outcome = "continue" ->
            /\ stream' = [stream EXCEPT ![e] = st]
            /\ events' = [events EXCEPT ![e] = ev]
            /\ UNCHANGED <<call, mon, running_processes, output_history,
                         installed_packages>>
      [] outcome = "raised" ->
            /\ stream' = [stream EXCEPT ![e] = [st EXCEPT !.pc = "none"]]
            /\ StreamRaised(e, ev, cause, o3)
      [] outcome = "completed" ->
            /\ stream' = [stream EXCEPT ![e] =
                              [st EXCEPT !.pc = "none", !.returned = TRUE]]
            /\ IF call[e].background
               THEN MonitorCompleted(e, ev, Join(st.accumulated_output), o3, o4)
               ELSE ForegroundCompleted(e, ev, Join(st.accumulated_output), o3, o4)

\* await process.stdout.read(1024)
stream_read_stdout(e) ==
    /\ stream[e].pc = "read_stdout"
    /\ LET o == stream[e].target
       IN  /\ PipeReady(o, "stdout")
           /\ proc' = [proc EXCEPT ![o].stdout = Unread(@)]
           /\ \E o3 \in SinkOutcomes :
                StreamEnds(e,
                    [stream[e] EXCEPT !.pc = "read_stderr",
                                      !.stdout_chunk = ReadChunk(proc[o].stdout),
                                      !.chunks = Chunks(@, ReadChunk(proc[o].stdout))],
                    events[e], ArriveOutcome(e, o, "read_stderr"),
                    "read", o3, o3)
    /\ UNCHANGED <<status, cleaner, classifier, listed, shut, now, broadcast_message, command_history,
                   working_directory, record>>

\* await process.stderr.read(1024) and the rest of the loop body, lines
\* 645-685, up to the next read, the sleep or the return
stream_read_stderr(e) ==
    /\ stream[e].pc = "read_stderr"
    /\ LET o == stream[e].target
       IN  /\ PipeReady(o, "stderr")
           /\ \E o1 \in SinkOutcomes, o2 \in SinkOutcomes,
                 o3 \in SinkOutcomes, o4 \in SinkOutcomes :
                LET stdout_chunk == stream[e].stdout_chunk
                    stderr_chunk == ReadChunk(proc[o].stderr)
                    last0 == stream[e].last_update_time
                    due1 == stdout_chunk # <<>> /\ UpdateDue(now, last0)
                    raised1 == due1 /\ o1 = "raise"
                    last1 == IF due1 THEN now ELSE last0
                    seen2 == ~raised1 /\ stderr_chunk # <<>>
                    due2 == seen2 /\ UpdateDue(now, last1)
                    raised2 == due2 /\ o2 = "raise"
                    last2 == IF due2 THEN now ELSE last1
                    texts ==
                        (IF stdout_chunk # <<>>
                         THEN <<Decode(stdout_chunk)>> ELSE <<>>)
                        \o (IF seen2 THEN <<Decode(stderr_chunk)>> ELSE <<>>)
                    ev1 == IF due1
                           THEN StreamingNotified(events[e], "stdout", o1)
                           ELSE events[e]
                    ev2 == IF due2
                           THEN StreamingNotified(ev1, "stderr", o2)
                           ELSE ev1
                    silent == stdout_chunk = <<>> /\ stderr_chunk = <<>>
                    outcome ==
                        IF raised1 \/ raised2 THEN "raised"
                        ELSE IF silent /\ proc[o].state = "exited"
                             THEN "completed"
                        ELSE IF silent THEN "continue"
                        ELSE ArriveOutcome(e, o, "read_stdout")
                    st == [stream[e] EXCEPT
                             !.pc = IF silent THEN "sleep" ELSE "read_stdout",
                             !.stdout_chunk = <<>>,
                             !.accumulated_output = @ \o texts,
                             !.chunks = Chunks(@, stderr_chunk),
                             !.last_update_time = last2]
                IN  /\ proc' = [proc EXCEPT ![o].stderr = Unread(@)]
                    /\ record' = [record EXCEPT ![o].output = @ \o texts]
                    /\ StreamEnds(e, st, ev2, outcome,
                                  IF raised1 \/ raised2 THEN "sink"
                                  ELSE "read", o3, o4)
    /\ UNCHANGED <<status, cleaner, classifier, listed, shut, now, broadcast_message, command_history, working_directory>>

\* await asyncio.sleep(0.1) returns
stream_sleep(e) ==
    /\ stream[e].pc = "sleep"
    /\ \E o3 \in SinkOutcomes :
         StreamEnds(e, [stream[e] EXCEPT !.pc = "read_stdout"], events[e],
                    ArriveOutcome(e, stream[e].target, "read_stdout"),
                    "read", o3, o3)
    /\ UNCHANGED <<status, cleaner, classifier, listed, shut, now, broadcast_message, command_history,
                   working_directory, record, proc>>

(***************************************************************************)
(* _execute_with_streaming.                                                *)
(***************************************************************************)
\* the frame of _stream_process_output(process_id) as it starts: the record
\* stored under the id, an empty accumulation, last_update_time = now
StreamStarted(registry, pid) ==
    [pc |-> "read_stdout", target |-> registry[pid],
     accumulated_output |-> <<>>, last_update_time |-> now,
     stdout_chunk |-> <<>>, chunks |-> <<>>, returned |-> FALSE]

\* create_subprocess_shell has returned: store the record (lines 548-556);
\* a background call starts its monitor task and returns (lines 558-561), a
\* foreground call starts to stream under wait_for (lines 564-568)
register_process(e) ==
    /\ call[e].pc = "spawning"
    /\ LET pid == call[e].process_id
           registry == Registered(running_processes, pid, e)
       IN  /\ running_processes' = registry
           /\ record' = [record EXCEPT ![e] =
                 [command |-> call[e].docker_command, start_time |-> now,
                  background |-> call[e].background,
                  timeout |-> call[e].bound,
                  output |-> <<>>]]
           /\ IF call[e].background
              THEN /\ mon' = [mon EXCEPT ![e] = "created"]
                   /\ call' = [call EXCEPT ![e] =
                         [@ EXCEPT !.pc = "returned", !.success = TRUE,
                                   !.output = <<"Started background process ">>
                                              \o ProcessIdText(pid)]]
                   /\ UNCHANGED stream
              ELSE /\ call' = [call EXCEPT ![e].pc = "streaming"]
                   /\ stream' = [stream EXCEPT ![e] = StreamStarted(registry, pid)]
                   /\ UNCHANGED mon
    /\ UNCHANGED <<status, cleaner, classifier, installed_packages, listed, shut, now, broadcast_message, command_history, output_history,
                   working_directory, proc, events>>

\* wait_for(..., timeout) expires in a foreground call: the stream is
\* cancelled, process.terminate(), await process.wait() (lines 589-593)
streaming_timeout(e) ==
    /\ call[e].pc = "streaming"
    /\ stream[e].pc \in StreamLoopPcs
    /\ stream' = [stream EXCEPT ![e].pc = "none"]
    /\ proc' = Terminated(proc, e)
    /\ call' = [call EXCEPT ![e] =
          [Failed(@, "timeout") EXCEPT
              !.pc = "terminate_wait",
              !.captured = Join(stream[e].accumulated_output)]]
    /\ UNCHANGED <<status, cleaner, classifier, installed_packages, listed, shut, now, broadcast_message, command_history, output_history,
                   working_directory, running_processes, record, mon, events>>

\* the timeout message of _execute_with_streaming
TimeoutMessage(timeout, output_so_far) ==
    <<"Command", " timed out after ">> \o DecStr(timeout)
    \o <<" seconds", "\n">> \o output_so_far

\* process.wait() has returned: lines 597-617
streaming_terminated(e) ==
    /\ call[e].pc = "terminate_wait"
    /\ proc[e].state = "exited"
    /\ \E o3 \in SinkOutcomes, o4 \in SinkOutcomes :
        LET pid == call[e].process_id
            output_so_far ==
                IF pid \in DOMAIN running_processes
                THEN Join(record[running_processes[pid]].output) ELSE <<>>
            timeout_message ==
                TimeoutMessage(call[e].bound, output_so_far)
            r == IF o3 = "raise"
                 THEN ExceptionHandled(call[e],
                          Notified(events[e], "error", "timeout", o3),
                          "sink", o4)
                 ELSE [call |-> [call[e] EXCEPT !.pc = "returned",
                                                !.success = FALSE,
                                                !.output = timeout_message],
                       events |-> Notified(events[e], "error", "timeout", o3)]
        IN  /\ running_processes' = Unregistered(running_processes, pid)
            /\ output_history' = Append(output_history, timeout_message)
            /\ call' = [call EXCEPT ![e] = r.call]
            /\ events' = [events EXCEPT ![e] = r.events]
    /\ UNCHANGED <<status, cleaner, classifier, installed_packages, listed, shut, now, broadcast_message, command_history, working_directory,
                   record, proc, stream, mon>>

(***************************************************************************)
(* _monitor_background_process.                                            *)
(***************************************************************************)
\* the task starts: lines 697-713
monitor_start(e) ==
    /\ mon[e] = "created"
    /\ LET pid == call[e].process_id
       IN  IF pid \notin DOMAIN running_processes
           THEN /\ mon' = [mon EXCEPT ![e] = "done"]
                /\ UNCHANGED <<stream, running_processes, events>>
           ELSE LET st == StreamStarted(running_processes, pid)
                IN  IF ReadConflict(e, st.target, "read_stdout")
                    THEN \E o3 \in SinkOutcomes :
                           /\ StreamRaised(e, events[e], "read", o3)
                           /\ UNCHANGED stream
                    ELSE /\ mon' = [mon EXCEPT ![e] = "streaming"]
                         /\ stream' = [stream EXCEPT ![e] = st]
                         /\ UNCHANGED <<running_processes, events>>
    /\ UNCHANGED <<status, cleaner, classifier, installed_packages, listed, shut, now, broadcast_message, command_history, output_history,
                   working_directory, record, proc, call>>

\* wait_for(..., timeout) expires in a monitor: lines 727-731
monitor_timeout(e) ==
    /\ mon[e] = "streaming"
    /\ stream[e].pc \in StreamLoopPcs
    /\ stream' = [stream EXCEPT ![e].pc = "none"]
    /\ proc' = Terminated(proc, stream[e].target)
    /\ mon' = [mon EXCEPT ![e] = "terminate_wait"]
    /\ UNCHANGED <<status, cleaner, classifier, installed_packages, listed, shut, now, broadcast_message, command_history, output_history,
                   working_directory, running_processes, record, call, events>>

\* process.wait() has returned: lines 735-744 and the finally clause
monitor_terminated(e) ==
    /\ mon[e] = "terminate_wait"
    /\ proc[stream[e].target].state = "exited"
    /\ \E o3 \in SinkOutcomes :
         events' = [events EXCEPT ![e] =
            Notified(events[e], "background_timeout", "", o3)]
    /\ running_processes' = Unregistered(running_processes, call[e].process_id)
    /\ mon' = [mon EXCEPT ![e] = "done"]
    /\ UNCHANGED <<status, cleaner, classifier, installed_packages, listed, shut, now, broadcast_message, command_history, output_history,
                   working_directory, record, proc, call, stream>>

(***************************************************************************)
(* _run_local_command, as execute_command calls it for stream_output=False. *)
(***************************************************************************)
\* lines 1096-1103: stdout, and stderr after a newline when there is any
CombinedOutput(stdout, stderr) ==
    Decode(stdout)
    \o (IF stderr # <<>> /\ Decode(stderr) # <<>>
        THEN <<"\n">> \o Decode(stderr) ELSE <<>>)

\* process.communicate() has returned within the timeout: lines 1092-1103,
\* then execute_command lines 226-244
run_local_completed(e) ==
    /\ call[e].pc = "communicate"
    /\ proc[e].state = "exited"
    /\ \E o3 \in SinkOutcomes, o4 \in SinkOutcomes :
        LET output == CombinedOutput(proc[e].stdout, proc[e].stderr)
            success == LocalSuccess(proc[e].returncode, output)
            r == IF o3 = "raise"
                 THEN ExceptionHandled(call[e],
                          Notified(events[e], "output",
                              IF success THEN "success" ELSE "failure", o3),
                          "sink", o4)
                 ELSE [call |-> [call[e] EXCEPT !.pc = "returned",
                                                !.success = success,
                                                !.output = output],
                       events |-> Notified(events[e], "output",
                                    IF success THEN "success" ELSE "failure", o3)]
        IN  /\ output_history' = Append(output_history, output)
            /\ call' = [call EXCEPT ![e] = r.call]
            /\ events' = [events EXCEPT ![e] = r.events]
    /\ proc' = [proc EXCEPT ![e].stdout = <<>>, ![e].stderr = <<>>]
    /\ UNCHANGED <<status, cleaner, classifier, installed_packages, listed, shut, now, broadcast_message, command_history, working_directory,
                   running_processes, record, stream, mon>>

\* wait_for(process.communicate(), timeout) expires: lines 1105-1109
run_local_timeout(e) ==
    /\ call[e].pc = "communicate"
    /\ proc' = Terminated(proc, e)
    /\ call' = [call EXCEPT ![e] =
          [Failed(@, "timeout") EXCEPT
              !.pc = "communicate_terminate_wait",
              !.captured = CombinedOutput(proc[e].stdout, proc[e].stderr)]]
    /\ UNCHANGED <<status, cleaner, classifier, installed_packages, listed, shut, now, broadcast_message, command_history, output_history,
                   working_directory, running_processes, record, stream, mon,
                   events>>

\* process.wait() has returned and the TimeoutError is raised again (line
\* 1113): execute_command lines 246-257
run_local_terminated(e) ==
    /\ call[e].pc = "communicate_terminate_wait"
    /\ proc[e].state = "exited"
    /\ \E o3 \in SinkOutcomes :
        LET r == TimeoutHandled(call[e], events[e], o3)
        IN  /\ call' = [call EXCEPT ![e] = r.call]
            /\ events' = [events EXCEPT ![e] = r.events]
    /\ UNCHANGED <<status, cleaner, classifier, installed_packages, listed, shut, now, broadcast_message, command_history, output_history,
                   working_directory, running_processes, record, proc, stream,
                   mon>>

(***************************************************************************)
(* Package installs: execute_command, _handle_pip_install and              *)
(* _handle_npm_install.                                                    *)
(***************************************************************************)
\* the length of the first word of a text that starts with one
WordLen(s) ==
    IF \E i \in 1..Len(s) : s[i] \in Whitespace
    THEN (CHOOSE i \in 1..Len(s) :
              s[i] \in Whitespace /\ \A j \in 1..(i - 1) : s[j] \notin Whitespace)
         - 1
    ELSE Len(s)

RECURSIVE Split(_)
\* Python: s.split()
Split(s) ==
    IF s = <<>> THEN <<>>
    ELSE IF Head(s) \in Whitespace THEN Split(Tail(s))
    ELSE <<SubSeq(s, 1, WordLen(s))>> \o Split(SubSeq(s, WordLen(s) + 1, Len(s)))

RECURSIVE JoinWith(_, _)
\* Python: sep.join(words)
JoinWith(words, sep) ==
    IF words = <<>> THEN <<>>
    ELSE IF Len(words) = 1 THEN words[1]
    ELSE words[1] \o sep \o JoinWith(Tail(words), sep)

\* Python: word.startswith("-")
IsOption(word) == StartsWith(word, <<"-">>)

RECURSIVE ExtractPackages(_, _, _)
\* the loop that extracts the packages from parts[i:] (0-based in the
\* code): the words of the command itself are skipped, and so is an option
\* together with the word after it unless that word is an option too
ExtractPackages(parts, i, skipped) ==
    IF i > Len(parts) THEN <<>>
    ELSE IF parts[i] \in skipped THEN ExtractPackages(parts, i + 1, skipped)
    ELSE IF IsOption(parts[i])
         THEN IF i + 1 <= Len(parts) /\ ~IsOption(parts[i + 1])
              THEN ExtractPackages(parts, i + 2, skipped)
              ELSE ExtractPackages(parts, i + 1, skipped)
    ELSE <<parts[i]>> \o ExtractPackages(parts, i + 1, skipped)

\* new_packages = [pkg for pkg in packages if pkg not in installed]
NewPackages(packages, installed) ==
    SelectSeq(packages, LAMBDA pkg : pkg \notin installed)

\* what an install handler decides before its first suspension: to run
\* the command as it is ("normal"), to run nothing ("skip") or to run
\* install_cmd ("install")
InstallPlan(kind, manager, packages, new_packages, install_cmd) ==
    [kind |-> kind, manager |-> manager, packages |-> packages,
     new_packages |-> new_packages, install_cmd |-> install_cmd]

\* _handle_pip_install, lines 385-427
handle_pip_install(command, installed) ==
    LET parts == Split(command)
        packages ==
            ExtractPackages(parts, 1,
                { <<"p","i","p">>, <<"p","i","p","3">>,
                  <<"i","n","s","t","a","l","l">> })
        new_packages == NewPackages(packages, installed)
    IN  IF \E i \in DOMAIN parts : parts[i] = <<"-","r">>
        THEN InstallPlan("normal", "none", <<>>, <<>>, command)
        ELSE IF new_packages = <<>>
        THEN InstallPlan("skip", "pip", packages, new_packages, <<>>)
        ELSE InstallPlan("install", "pip", packages, new_packages,
                 <<"p","i","p"," ","i","n","s","t","a","l","l"," ">>
                 \o JoinWith(new_packages, <<" ">>))

\* _handle_npm_install, lines 447-511
handle_npm_install(command, installed) ==
    LET parts == Split(command)
        is_yarn == Contains(parts[1], <<"y","a","r","n">>)
        install_cmd ==
            IF is_yarn THEN <<"a","d","d">>
            ELSE <<"i","n","s","t","a","l","l">>
        save_dev_flag ==
            IF is_yarn THEN <<"-","-","dev">> ELSE <<"-","-","save-dev">>
        Has(word) == \E i \in DOMAIN parts : parts[i] = word
        is_global == Has(<<"-","g">>) \/ Has(<<"-","-","global">>)
        is_dev == Has(<<"-","-","save-dev">>) \/ Has(<<"-","D">>)
                  \/ Has(save_dev_flag)
        packages ==
            ExtractPackages(parts, 1,
                { <<"n","p","m">>, <<"y","a","r","n">>, install_cmd,
                  <<"a","d","d">> })
        new_packages == NewPackages(packages, installed)
    IN  IF is_global
        THEN InstallPlan("normal", "none", <<>>, <<>>, command)
        ELSE IF new_packages = <<>>
        THEN InstallPlan("skip", "npm", packages, new_packages, <<>>)
        ELSE InstallPlan("install", "npm", packages, new_packages,
                 IF is_yarn
                 THEN <<"y","a","r","n"," ","a","d","d"," ">>
                      \o JoinWith(new_packages, <<" ">>)
                      \o (IF is_dev THEN <<" ","-","-","dev">> ELSE <<>>)
                 ELSE <<"n","p","m"," ","i","n","s","t","a","l","l"," ">>
                      \o JoinWith(new_packages, <<" ">>)
                      \o (IF is_dev THEN <<" ","-","-","save-dev">>
                          ELSE <<>>))

\* execute_command for a package install, up to its return or to the
\* suspension of _execute_with_streaming in create_subprocess_shell: the
\* working_dir override, the command history, the "command" notification,
\* and the handler up to the spawn, which it makes with the default timeout
\* and in the foreground (spawned: whether the OS creates the child;
\* ignores: whether the child ignores SIGTERM)
execute_command_install(e, command, timeout, working_dir, spawned, ignores) ==
    /\ call[e].pc = "idle"
    /\ \A d \in Execs : d < e => call[d].pc # "idle"
    /\ Dispatch(clean_command(command)) \in {"pip", "npm"}
    /\ LET current_dir ==
               IF working_dir # NoDir THEN working_dir ELSE working_directory
           cleaned == clean_command(command)
           plan == IF Dispatch(cleaned) = "pip"
                   THEN handle_pip_install(cleaned, installed_packages.pip)
                   ELSE handle_npm_install(cleaned, installed_packages.npm)
           docker_command ==
               prepare_docker_command(plan.install_cmd, NoDir, current_dir)
           c == [call[e] EXCEPT
                   !.command = command, !.timeout = timeout,
                   !.working_dir = working_dir,
                   !.entered_dir = working_directory,
                   !.preceded_by =
                       {d \in Execs : call[d].pc \in {"returned", "raised"}}]
           planned == [c EXCEPT !.manager = plan.manager,
                                !.packages = plan.packages,
                                !.new_packages = plan.new_packages]
           skipped == [planned EXCEPT
                         !.pc = "returned", !.success = TRUE,
                         !.output = <<"All packages already installed: ">>
                                    \o JoinWith(plan.packages, <<", ">>)]
           started == [planned EXCEPT
                         !.docker_command = docker_command,
                         !.bound = command_timeout,
                         !.process_id = ProcessId(now, docker_command),
                         !.pc = "spawning"]
       IN  /\ working_directory' = current_dir
           /\ command_history' = Append(command_history, command)
           /\ \E o1 \in SinkOutcomes, o2 \in SinkOutcomes, o3 \in SinkOutcomes :
                LET ev == Notified(events[e], "command", "", o1)
                    r == IF o1 = "raise"
                         THEN ExceptionHandled(c, ev, "sink", o2)
                         ELSE IF plan.kind = "skip"
                         THEN IF o2 = "raise"
                              THEN ExceptionHandled(planned,
                                       Notified(ev, "output", "success", o2),
                                       "sink", o3)
                              ELSE [call |-> skipped,
                                    events |-> Notified(ev, "output", "success", o2)]
                         ELSE IF ~spawned
                         THEN ExceptionHandled(
                                  [planned EXCEPT !.docker_command = docker_command],
                                  ev, "spawn", o2)
                         ELSE [call |-> started, events |-> ev]
                IN  /\ call' = [call EXCEPT ![e] = r.call]
                    /\ events' = [events EXCEPT ![e] = r.events]
                    /\ proc' = IF r.call.pc = "spawning"
                               THEN [proc EXCEPT ![e] =
                                       [NoProc EXCEPT !.state = "running",
                                                      !.ignores_term = ignores]]
                               ELSE proc
    /\ UNCHANGED <<status, cleaner, classifier, installed_packages, listed, shut, now, broadcast_message,
                   output_history, running_processes, record, stream, mon>>

(***************************************************************************)
(* Directory changes: execute_command and _handle_cd_command.              *)
(***************************************************************************)
\* target_dir = command[3:].strip()
TargetDir(cleaned) == Strip(SubSeq(cleaned, 4, Len(cleaned)))

\* the end of _handle_cd_command: the "output" notification and the
\* return; a sink that raises takes the call to except Exception
CdDone(c, ev, success, output, o2, o3) ==
    IF o2 = "raise"
    THEN ExceptionHandled(c,
             Notified(ev, "output",
                 IF success THEN "success" ELSE "failure", o2),
             "sink", o3)
    ELSE [call |-> [c EXCEPT !.pc = "returned", !.success = success,
                             !.output = output],
          events |-> Notified(ev, "output",
                        IF success THEN "success" ELSE "failure", o2)]

\* execute_command for a directory change, up to its return or to the
\* suspension of _handle_cd_command in _run_local_command(check_cmd): the
\* working_dir override, the command history, the "command" notification,
\* and lines 323-355 (spawned: whether the OS creates the child that checks
\* the directory)
execute_command_cd(e, command, working_dir, spawned) ==
    /\ call[e].pc = "idle"
    /\ \A d \in Execs : d < e => call[d].pc # "idle"
    /\ Dispatch(clean_command(command)) = "cd"
    /\ \E o1 \in SinkOutcomes, o2 \in SinkOutcomes, o3 \in SinkOutcomes :
        LET current_dir ==
                IF working_dir # NoDir THEN working_dir ELSE working_directory
            target_dir == TargetDir(clean_command(command))
            c == [call[e] EXCEPT
                    !.command = command, !.working_dir = working_dir,
                    !.entered_dir = working_directory,
                    !.preceded_by =
                        {d \in Execs : call[d].pc \in {"returned", "raised"}}]
            ev == Notified(events[e], "command", "", o1)
            moved_to ==
                IF o1 = "raise" THEN current_dir
                ELSE IF target_dir = <<".", ".">> THEN dirname(current_dir)
                ELSE IF StartsWith(target_dir, <<"/">>) THEN target_dir
                ELSE current_dir
            r == IF o1 = "raise" THEN ExceptionHandled(c, ev, "sink", o2)
                 ELSE IF \/ target_dir = <<".", ".">>
                         \/ StartsWith(target_dir, <<"/">>)
                      THEN CdDone(c, ev, TRUE,
                                  <<"Changed directory to ">> \o moved_to,
                                  o2, o3)
                 ELSE IF ~spawned THEN ExceptionHandled(c, ev, "spawn", o2)
                 ELSE [call |-> [c EXCEPT
                                   !.pc = "cd_check",
                                   !.new_dir = join(current_dir, target_dir)],
                       events |-> ev]
        IN  /\ command_history' = Append(command_history, command)
            /\ working_directory' = moved_to
            /\ call' = [call EXCEPT ![e] = r.call]
            /\ events' = [events EXCEPT ![e] = r.events]
    /\ UNCHANGED <<status, cleaner, classifier, installed_packages, listed, shut, now, broadcast_message, output_history,
                   running_processes, record, proc, stream, mon>>

\* what the child that checks the directory writes
CheckOutput(exists) ==
    IF exists THEN <<"e","x","i","s","t","s","\n">> ELSE <<>>

\* _run_local_command(check_cmd) returns in _handle_cd_command: lines
\* 357-373
cd_checked(e, exists) ==
    /\ call[e].pc = "cd_check"
    /\ exists \in CheckResults(call[e].new_dir)
    /\ \E o2 \in SinkOutcomes, o3 \in SinkOutcomes :
        LET new_dir == call[e].new_dir
            found == Contains(CheckOutput(exists), <<"e","x","i","s","t","s">>)
            r == IF found
                 THEN CdDone(call[e], events[e], TRUE,
                             <<"Changed directory to ">> \o new_dir, o2, o3)
                 ELSE CdDone(call[e], events[e], FALSE,
                             <<"Directory not found: ">> \o new_dir, o2, o3)
        IN  /\ working_directory' =
                  IF found THEN new_dir ELSE working_directory
            /\ call' = [call EXCEPT ![e] = r.call]
            /\ events' = [events EXCEPT ![e] = r.events]
    /\ UNCHANGED <<status, cleaner, classifier, installed_packages, listed, shut, now, broadcast_message, command_history,
                   output_history, running_processes, record, proc, stream,
                   mon>>

(***************************************************************************)
(* shutdown.                                                               *)
(***************************************************************************)
\* a registry that shutdown leaves as it is
Cleared_Kept(registry) == registry

\* self.running_processes.clear()
Cleared(registry) == <<>>

\* the loop of shutdown (lines 160-166) from one suspension to the next,
\* over the records of the snapshot it has not reached yet, then line 168.
\* For a process whose exit status is collected, terminate() raises
\* ProcessLookupError, which is caught, and the loop goes on; for any other,
\* terminate() and the suspension at await process.wait().  The snapshot is
\* in the insertion order of the registry, which the model does not keep:
\* the loop takes the records in any order.
ShutdownLoop(sh, items) ==
    LET live == {o \in items : proc[o].state # "exited"}
    IN  IF live = {}
        THEN /\ running_processes' = Cleared(running_processes)
             /\ shut' = [sh EXCEPT !.pc = "returned", !.items = {},
                                   !.waiting_for = 0,
                                   !.left = Cleared(running_processes)]
             /\ UNCHANGED proc
        ELSE \E o \in live :
               /\ proc' = Terminated(proc, o)
               /\ shut' = [sh EXCEPT !.pc = "waiting", !.items = items \ {o},
                                     !.waiting_for = o]
               /\ UNCHANGED running_processes

\* shutdown is called: the snapshot list(self.running_processes.items())
\* and the loop up to its first suspension
shutdown_call ==
    /\ shut.pc \in {"idle", "returned"}
    /\ shut.calls < MaxShutdowns
    /\ ShutdownLoop(
          [shut EXCEPT !.calls = @ + 1,
                       !.repeated = @ \/ (shut.pc = "returned"
                                          /\ running_processes = shut.left)],
          {running_processes[p] : p \in DOMAIN running_processes})
    /\ UNCHANGED <<status, cleaner, classifier, installed_packages, listed, now, broadcast_message, command_history, output_history,
                   working_directory, record, call, stream, mon, events>>

\* await process_info["process"].wait() returns in shutdown
shutdown_waited ==
    /\ shut.pc = "waiting"
    /\ proc[shut.waiting_for].state = "exited"
    /\ ShutdownLoop(shut, shut.items)
    /\ UNCHANGED <<status, cleaner, classifier, installed_packages, listed, now, broadcast_message, command_history, output_history,
                   working_directory, record, call, stream, mon, events>>

(***************************************************************************)
(* The specification.                                                      *)
(***************************************************************************)
\* Spec: one execution, with every input
Next ==
    \/ Tick
    \/ set_broadcast_function
    \/ \E e \in 1..MaxSolo, command \in Commands, timeout \in TimeoutArgs,
          stream_output \in BOOLEAN, background \in BOOLEAN,
          working_dir \in WorkingDirArgs, spawned \in BOOLEAN,
          ignores \in BOOLEAN :
         execute_command(e, command, timeout, stream_output, background,
                         working_dir, spawned, ignores)
    \/ \E e \in Execs : register_process(e)
    \/ \E e \in Execs : stream_read_stdout(e)
    \/ \E e \in Execs : stream_read_stderr(e)
    \/ \E e \in Execs : stream_sleep(e)
    \/ \E e \in Execs : streaming_timeout(e)
    \/ \E e \in Execs : streaming_terminated(e)
    \/ \E e \in Execs : monitor_start(e)
    \/ \E e \in Execs : monitor_timeout(e)
    \/ \E e \in Execs : monitor_terminated(e)
    \/ \E e \in Execs : run_local_completed(e)
    \/ \E e \in Execs : run_local_timeout(e)
    \/ \E e \in Execs : run_local_terminated(e)
    \/ \E e \in Execs, pipe \in {"stdout", "stderr"}, chunk \in ChunkSet :
         ChildWrite(e, pipe, chunk, MaxWrites)
    \/ \E e \in Execs, code \in ExitCodes : ChildExit(e, code)
    \/ \E e \in Execs : ChildTerminated(e)
    \/ \E e \in Execs : ChildReaped(e)

Spec == Init /\ [][Next]_vars

\* SpecConcurrent: overlapping executions of one command with the default
\* timeout, without a sink; every child is created, honours SIGTERM and
\* writes at most MaxWritesConcurrent times, to standard output
NextConcurrent ==
    \/ Tick
    \/ \E e \in Execs, stream_output \in BOOLEAN, background \in BOOLEAN,
          working_dir \in WorkingDirArgs :
         execute_command(e, <<"l","s">>, 0, stream_output, background,
                         working_dir, TRUE, FALSE)
    \/ \E e \in Execs : register_process(e)
    \/ \E e \in Execs : stream_read_stdout(e)
    \/ \E e \in Execs : stream_read_stderr(e)
    \/ \E e \in Execs : stream_sleep(e)
    \/ \E e \in Execs : streaming_timeout(e)
    \/ \E e \in Execs : streaming_terminated(e)
    \/ \E e \in Execs : monitor_start(e)
    \/ \E e \in Execs : monitor_timeout(e)
    \/ \E e \in Execs : monitor_terminated(e)
    \/ \E e \in Execs : run_local_completed(e)
    \/ \E e \in Execs : run_local_timeout(e)
    \/ \E e \in Execs : run_local_terminated(e)
    \/ \E e \in Execs :
         ChildWrite(e, "stdout", <<"f","a","t">>, MaxWritesConcurrent)
    \/ \E e \in Execs : ChildExit(e, 0)
    \/ \E e \in Execs : ChildTerminated(e)
    \/ \E e \in Execs : ChildReaped(e)

SpecConcurrent == Init /\ [][NextConcurrent]_vars

\* SpecShutdown: two streaming executions whose children write nothing and
\* end by themselves or by a signal, no sink, no timeout, with shutdown and
\* get_running_processes
NextShutdown ==
    \/ \E e \in Execs, background \in BOOLEAN, working_dir \in WorkingDirArgs :
         execute_command(e, <<"l","s">>, 0, TRUE, background, working_dir,
                         TRUE, FALSE)
    \/ \E e \in Execs : register_process(e)
    \/ \E e \in Execs : stream_read_stdout(e)
    \/ \E e \in Execs : stream_read_stderr(e)
    \/ \E e \in Execs : stream_sleep(e)
    \/ \E e \in Execs : monitor_start(e)
    \/ \E e \in Execs : ChildExit(e, 0)
    \/ \E e \in Execs : ChildTerminated(e)
    \/ \E e \in Execs : ChildReaped(e)
    \/ shutdown_call
    \/ shutdown_waited
    \/ get_running_processes_call

SpecShutdown == Init /\ [][NextShutdown]_vars

\* SpecCd: directory changes, with or without a working_dir override and
\* with or without a sink, which may overlap
\* the calls before e have ended, their monitors included
AllEnded(e) ==
    \A d \in Execs : d < e =>
        IF mon[d] # "none" THEN mon[d] = "done"
        ELSE call[d].pc \in {"returned", "raised"}

NextInstall ==
    \/ /\ \A e \in Execs : call[e].pc = "idle"
       /\ set_broadcast_function
    \/ \E e \in Execs, command \in InstallCommands, timeout \in InstallTimeoutArgs, spawned \in BOOLEAN :
          /\ AllEnded(e)
          /\ execute_command_install(e, command, timeout, NoDir, spawned, FALSE)
    \/ \E e \in Execs : register_process(e)
    \/ \E e \in Execs : stream_read_stdout(e)
    \/ \E e \in Execs : stream_read_stderr(e)
    \/ \E e \in Execs : stream_sleep(e)
    \/ \E e \in Execs : streaming_timeout(e)
    \/ \E e \in Execs : streaming_terminated(e)
    \/ \E e \in Execs, code \in ExitCodes : ChildExit(e, code)
    \/ \E e \in Execs : ChildTerminated(e)
    \/ \E e \in Execs : ChildReaped(e)

\* SpecInstall: package installs made one after the other, each with a
\* timeout argument, with or without a sink installed beforehand; the
\* children write nothing and end with an exit code or by the timeout
SpecInstall == Init /\ [][NextInstall]_vars

\* SpecClassifier: _detect_error_in_output applied to an output
InitClassifier ==
    /\ Constructed
    /\ classifier \in [output : Outputs, result : {"none"}]
    /\ cleaner = NoCleaner
    /\ status = NoStatus

\* a call of _detect_error_in_output
detect_error_in_output_call ==
    /\ classifier.result = "none"
    /\ classifier' = [classifier EXCEPT
           !.result = IF detect_error_in_output(classifier.output)
                      THEN "error" ELSE "clean"]
    /\ UNCHANGED <<now, broadcast_message, command_history, output_history,
                   working_directory, running_processes, record, proc, call,
                   stream, mon, events, shut, listed, installed_packages,
                   cleaner, status>>

NextClassifier == detect_error_in_output_call

SpecClassifier == InitClassifier /\ [][NextClassifier]_vars

NextCd ==
    \/ set_broadcast_function
    \/ \E e \in Execs, command \in CdCommands,
          working_dir \in CdWorkingDirArgs, spawned \in BOOLEAN :
         execute_command_cd(e, command, working_dir, spawned)
    \/ \E e \in Execs, exists \in BOOLEAN : cd_checked(e, exists)

SpecCd == Init /\ [][NextCd]_vars

(***************************************************************************)
(* Properties.                                                             *)
(***************************************************************************)
\* the call has returned a result
Returned(e) == call[e].pc = "returned"

\* a call that waited for its child (every call but a streaming one with
\* background=True), whose child ran to its end within the timeout and
\* whose result was computed from the child's output
CompletedNormally(e) ==
    Returned(e) /\ mon[e] = "none" /\ call[e].failure = "none"

\* the execution has reached its terminal outcome: a foreground call has
\* returned or raised, the monitor of a background one has ended
Terminal(e) ==
    IF mon[e] # "none"
    THEN mon[e] = "done"
    ELSE call[e].pc \in {"returned", "raised"}

\* the annotation 'timed out after T seconds'
TimeoutAnnotation(timeout) ==
    <<" timed out after ">> \o DecStr(timeout) \o <<" seconds">>

\* C1: a foreground call whose timeout has expired eventually returns (or
\* raises), whatever the child does with the termination signal.
C1_TimedOutCallReturns ==
    \A e \in Execs :
        (call[e].pc \in {"terminate_wait", "communicate_terminate_wait"})
            ~> (call[e].pc \in {"returned", "raised"})

\* C2: a foreground call that timed out returns success=False with an
\* output that holds the annotation 'timed out after T seconds' for its
\* timeout T and the output captured from the child before the timeout, on
\* the streaming and on the non-streaming path.
C2_TimeoutResult ==
    \A e \in Execs :
        Returned(e) /\ call[e].failure = "timeout" =>
            /\ ~call[e].success
            /\ Contains(call[e].output,
                   TimeoutAnnotation(TimeoutOr(call[e].timeout, command_timeout)))
            /\ Contains(call[e].output, call[e].captured)

\* C3: a result whose output holds a substring the classifier recognizes
\* has success=False, whatever the exit code of the child, on the streaming
\* and on the non-streaming path.
C3_ErrorOutputFails ==
    \A e \in Execs :
        Returned(e) /\ detect_error_in_output(call[e].output)
            => ~call[e].success

\* C3, witness: a non-streaming call whose child ended with exit code 0
\* after writing an error marker has returned the child's output with
\* success=False.
C3_Witness ==
    \E e \in Execs :
        /\ CompletedNormally(e)
        /\ ~call[e].stream_output
        /\ proc[e].returncode = 0
        /\ detect_error_in_output(call[e].output)
        /\ ~call[e].success

C5_SuccessIffExitAndClassifier ==
    \A e \in Execs :
        CompletedNormally(e) =>
            (call[e].success <=>
                (proc[e].returncode = 0
                 /\ ~detect_error_in_output(call[e].output)))

\* C6: execute_command does not raise for a timeout or a spawn failure, and
\* a result for a timeout, a spawn failure or a detected error has
\* success=False.
C6_FailuresAreResults ==
    \A e \in Execs :
        /\ call[e].failure \in {"timeout", "spawn"} => call[e].pc # "raised"
        /\ Returned(e)
           /\ (\/ call[e].failure \in {"timeout", "spawn"}
               \/ detect_error_in_output(call[e].output))
           => ~call[e].success

\* C7: a failing sink never aborts an execution and never decides its
\* result: no call raises, and no result carries the sink's error.
C7_SinkNeverDecides ==
    \A e \in Execs :
        /\ call[e].pc # "raised"
        /\ ~Contains(call[e].output, SinkErrorText)

\* C8: every record of the registry belongs to an execution that has not
\* reached its terminal outcome.
C8_RegistryOnlyLive ==
    \A p \in DOMAIN running_processes : ~Terminal(running_processes[p])

\* the execution has generated its process id and has not reached its
\* terminal outcome
InFlightWithId(e) ==
    call[e].process_id # NoProcessId /\ ~Terminal(e)

\* C9: two executions in flight at the same time have different process
\* ids.
C9_UniqueIds ==
    \A d \in Execs, e \in Execs :
        d # e /\ InFlightWithId(d) /\ InFlightWithId(e)
            => call[d].process_id # call[e].process_id

\* C10: once the spawn of its child has returned and until its terminal
\* outcome, an execution has its record in the registry, whether it
\* streams or not.
C10_SpawnedChildRegistered ==
    \A e \in Execs :
        /\ proc[e].state # "none"
        /\ call[e].pc \notin {"idle", "spawning"}
        /\ ~Terminal(e)
        => \E p \in DOMAIN running_processes : running_processes[p] = e

\* C11: a call with background=True whose child has been spawned and is
\* still running has already returned success=True with a message that
\* holds the process identifier, with stream_output True or False.
C11_BackgroundReturnsAtOnce ==
    \A e \in Execs :
        /\ call[e].background
        /\ call[e].pc \notin {"idle", "spawning"}
        /\ proc[e].state = "running"
        => /\ Returned(e)
           /\ call[e].success
           /\ call[e].process_id # NoProcessId
           /\ Contains(call[e].output, ProcessIdText(call[e].process_id))

\* C12: from the return of a background call until its child completes or
\* times out, the process identifier the call returned is a key of the map
\* get_running_processes returns.
C12_BackgroundListed ==
    \A e \in Execs :
        mon[e] \in {"created", "streaming"}
            => call[e].process_id \in DOMAIN get_running_processes

\* no two executions have generated the same process id
DistinctIds ==
    \A d \in Execs, e \in Execs :
        d # e /\ call[d].process_id # NoProcessId
            => call[d].process_id # call[e].process_id

\* C13: when shutdown returns the registry is empty and the child of every
\* execution that was registered up to then has ended, also when an
\* execution registered while shutdown waited.  (Stated for executions with
\* different process ids, so that no record was overwritten.)
C13_ShutdownTerminatesAll ==
    [][(shut.pc # "returned" \/ shut'.calls # shut.calls)
       /\ shut'.pc = "returned"
       /\ DistinctIds'
       => /\ running_processes' = <<>>
          /\ \A e \in Execs :
               record'[e] # NoRecord
                   => proc'[e].state \in {"ended", "exited"}]_vars

\* C14: a call of shutdown made after a call that returned, with the
\* registry as that call left it, returns at once and changes nothing: no
\* process is signalled and the registry stays as it was.
C14_ShutdownIdempotent ==
    [][shut.pc = "returned" /\ shut'.calls = shut.calls + 1
       /\ running_processes = shut.left
       => /\ shut'.pc = "returned"
          /\ UNCHANGED <<now, broadcast_message, command_history,
                         output_history, working_directory,
                         running_processes, record, proc, call, stream, mon,
                         events>>]_vars

\* C14, witness: a first call terminated a child, and a second call, made
\* with the registry as the first left it, has returned.
C14_Witness ==
    /\ shut.calls = 2
    /\ shut.repeated
    /\ shut.pc = "returned"
    /\ \E e \in Execs : proc[e].sigterm /\ proc[e].state = "exited"

\* the fields of a record that describe the execution
DescriptiveFields ==
    {"command", "start_time", "background", "timeout", "output"}

\* C15: a call of get_running_processes returns, for every key of the
\* registry, a record with the descriptive fields only, without the
\* 'process' handle, and leaves the registry and its records as they were.
C15_NoHandleExposed ==
    [][listed' # listed
       => /\ DOMAIN listed' = DOMAIN running_processes
          /\ \A p \in DOMAIN listed' :
               /\ "process" \notin DOMAIN listed'[p]
               /\ DOMAIN listed'[p] = DescriptiveFields
          /\ UNCHANGED <<running_processes, record, proc>>]_vars

\* C15, witness: a call has returned the records of two executions.
C15_Witness ==
    /\ Cardinality(DOMAIN listed) = 2
    /\ DOMAIN listed = DOMAIN running_processes

\* the calls of execute_command made so far
Called == {e \in Execs : call[e].pc # "idle"}

\* C16: the command history holds the command text of every call made, one
\* entry a call, and the output history holds one entry for every call that
\* has returned, its output, and no more entries than calls were made.
C16_HistoriesAppended ==
    /\ Len(command_history) = Cardinality(Called)
    /\ \A e \in Called : command_history[e] = call[e].command
    /\ Len(output_history) <= Cardinality(Called)
    /\ Cardinality({e \in Execs : Returned(e)}) <= Len(output_history)
    /\ \A e \in Execs :
         Returned(e) =>
             \E i \in DOMAIN output_history :
                 output_history[i] = call[e].output

\* C17: the output history is index-aligned with the command history: its
\* entry i is the output of the call that appended entry i of the command
\* history, also when executions overlap.
C17_HistoriesAligned ==
    \A i \in DOMAIN output_history :
        /\ i \in Called
        /\ Returned(i)
        /\ output_history[i] = call[i].output

\* the target of a directory change
CdTarget(c) == TargetDir(clean_command(c.command))

\* a directory change into a relative path
IsRelativeCd(c) ==
    /\ Dispatch(clean_command(c.command)) = "cd"
    /\ CdTarget(c) # <<".", ".">>
    /\ ~StartsWith(CdTarget(c), <<"/">>)

\* a directory change up
IsCdUp(c) ==
    /\ Dispatch(clean_command(c.command)) = "cd"
    /\ CdTarget(c) = <<".", ".">>

\* call d and then call e, one after the other, as the only calls: d had
\* ended when e was made, and no call was made after e
InSequence(d, e) ==
    /\ e = d + 1
    /\ \A f \in Execs : f < d => f \in call[d].preceded_by
    /\ d \in call[e].preceded_by
    /\ \A f \in Execs : f > e => call[f].pc = "idle"

\* C18: after 'cd S' for a relative path S that exists under the working
\* directory W, and then 'cd ..', both without a working_dir override, the
\* working directory is W again.
C18_CdRoundTrip ==
    \A d \in Execs, e \in Execs :
        /\ InSequence(d, e)
        /\ Returned(d) /\ call[d].success /\ IsRelativeCd(call[d])
        /\ Returned(e) /\ call[e].success /\ IsCdUp(call[e])
        /\ call[d].working_dir = NoDir /\ call[e].working_dir = NoDir
        => working_directory = call[d].entered_dir

\* the target of a directory change does not exist in the container
CdTargetMissing(c) ==
    /\ Dispatch(clean_command(c.command)) = "cd"
    /\ IF StartsWith(CdTarget(c), <<"/">>)
       THEN Components(CdTarget(c)) \notin Directories
       ELSE /\ IsRelativeCd(c)
            /\ IsAbsolute(c.new_dir)
            /\ Components(c.new_dir) \notin Directories

\* C19: a directory change (without a working_dir override, and that met
\* no exception) whose target, absolute or relative, does not exist returns
\* success=False with a 'Directory not found' message, the step that
\* returns leaves the working directory as it was, and the command was not
\* spawned as a process.
C19_CdNotFound ==
    [][\A e \in Execs :
         /\ call[e].pc # "returned" /\ call'[e].pc = "returned"
         /\ call'[e].failure = "none"
         /\ call'[e].working_dir = NoDir
         /\ CdTargetMissing(call'[e])
         => /\ ~call'[e].success
            /\ Contains(call'[e].output, <<"Directory not found: ">>)
            /\ working_directory' = working_directory
            /\ proc'[e] = NoProc]_vars

\* C20: the working directory is a non-empty absolute path.
C20_WorkingDirectoryAbsolute ==
    IsAbsolute(working_directory)

\* the calls that take a step
Stepping == {e \in Execs : call'[e] # call[e]}

\* C21: only directory-change commands write the working directory: a step
\* that changes it is a step of a call whose command is a directory change;
\* a call of any other command, with or without a working_dir override,
\* leaves it as it was.
C21_OnlyCdWritesWorkingDirectory ==
    [][working_directory' # working_directory
         => \E e \in Stepping :
                Dispatch(clean_command(call'[e].command)) = "cd"]_vars

\* a call of a package install
IsInstall(c) == Dispatch(clean_command(c.command)) \in {"pip", "npm"}

\* a call that ran an install and added its packages to the manager's set
Committed(e) ==
    /\ Returned(e) /\ call[e].success
    /\ call[e].manager # "none"
    /\ call[e].process_id # NoProcessId
    /\ call[e].new_packages # <<>>

\* C22: after an install has succeeded and its packages were added to the
\* manager's set, the same request made again finds no new package, spawns
\* no process and returns success=True.
C22_InstallIdempotent ==
    \A d \in Execs, e \in Execs :
        /\ InSequence(d, e)
        /\ Committed(d)
        /\ call[e].command = call[d].command
        /\ call[e].pc \in {"returned", "raised"}
        => /\ call[e].pc = "returned" /\ call[e].success
           /\ call[e].new_packages = <<>>
           /\ proc[e].state = "none"

\* every installed package was in the install that a call ran and returned
\* success for
InstalledBySuccess ==
    \A m \in DOMAIN installed_packages : \A pkg \in installed_packages[m] :
        \E e \in Execs :
            /\ Committed(e) /\ call[e].manager = m
            /\ pkg \in Range(call[e].new_packages)

\* a call that ends without success in this step
EndsFailed(e) ==
    /\ call[e].pc \notin {"returned", "raised"}
    /\ call'[e].pc \in {"returned", "raised"}
    /\ ~(call'[e].pc = "returned" /\ call'[e].success)

\* C23: each installed-package set holds only packages whose install
\* returned success; a call that fails or times out adds nothing to either
\* set; and no step removes a package from a set.
C23_InstalledOnlySucceeded ==
    /\ []InstalledBySuccess
    /\ [][/\ \A m \in DOMAIN installed_packages :
                installed_packages[m] \subseteq installed_packages'[m]
           /\ (\E e \in Execs : EndsFailed(e))
                => installed_packages' = installed_packages]_vars

\* after an install that succeeded, a second install has timed out and
\* left the set as it was
C23_Witness ==
    /\ installed_packages.pip = { <<"pkgA">> }
    /\ \E e \in Execs :
         /\ Returned(e) /\ call[e].failure = "timeout"
         /\ call[e].new_packages = << <<"pkgB">> >>

\* the names of packages, among the words of a command
PackageNames == { <<"pkgA">>, <<"pkgB">> }

\* the packages a command names
Requested(command) == Range(Split(clean_command(command))) \cap PackageNames

\* the set of the manager a command addresses
SetOf(command) ==
    installed_packages[Dispatch(clean_command(command))]

\* C24: a call of an install command spawns an install of exactly the
\* packages the command names (with or without option flags) that are not in
\* the manager's installed set, and returns success=True without running
\* anything only when every package it names is in that set.
C24_InstallsExactlyNew ==
    [][\A e \in Execs :
         /\ call[e].pc = "idle" /\ call'[e].pc # "idle"
         /\ IsInstall(call'[e])
         => LET new == Requested(call'[e].command)
                           \ SetOf(call'[e].command)
            IN  /\ call'[e].pc = "spawning"
                     => Range(Split(call'[e].docker_command.command))
                            \cap PackageNames = new
                /\ (call'[e].pc = "returned" /\ call'[e].success)
                     => new = {}]_vars

\* C25: when the OS cannot create the child process, the call returns
\* success=False with the system's error text in the output, no record is
\* registered, and the working directory and the installed packages are as
\* they were before the call.
C25_SpawnFailure ==
    [][\A e \in Execs :
         (call[e].pc = "idle" /\ call'[e].failure = "spawn")
         => /\ call'[e].pc = "returned" /\ ~call'[e].success
            /\ Contains(call'[e].output, SpawnErrorText)
            /\ running_processes' = running_processes
            /\ working_directory' = working_directory
            /\ installed_packages' = installed_packages]_vars

\* C26: the timeout that bounds an execution is the call's timeout argument
\* when one is given and the default otherwise, also for a package install.
C26_TimeoutBound ==
    \A e \in Execs :
        call[e].bound # 0
        => call[e].bound = TimeoutOr(call[e].timeout, command_timeout)

\* Python: str.lower(), for the letters of ASCII
UpperLetters ==
    <<"A","B","C","D","E","F","G","H","I","J","K","L","M",
      "N","O","P","Q","R","S","T","U","V","W","X","Y","Z">>

LowerLetters ==
    <<"a","b","c","d","e","f","g","h","i","j","k","l","m",
      "n","o","p","q","r","s","t","u","v","w","x","y","z">>

Lower(text) ==
    [i \in DOMAIN text |->
        IF \E n \in DOMAIN UpperLetters : UpperLetters[n] = text[i]
        THEN LowerLetters[CHOOSE n \in DOMAIN UpperLetters :
                              UpperLetters[n] = text[i]]
        ELSE text[i]]

\* an output holds 'error:' or 'exception:' in some mixture of case, or
\* another marker of the list as it is written
HoldsMarker(output) ==
    \/ Contains(Lower(output), <<"e","r","r","o","r",":">>)
    \/ Contains(Lower(output), <<"e","x","c","e","p","t","i","o","n",":">>)
    \/ \E n \in DOMAIN error_keywords : Contains(output, error_keywords[n])

\* C28: the classifier returns true for every output that holds 'error:'
\* or 'exception:' in any mixture of upper and lower case, and for every
\* output that holds another listed marker; it returns false for an output
\* that holds none.
C28_ClassifierCaseInsensitive ==
    classifier.result # "none"
    => (classifier.result = "error" <=> HoldsMarker(classifier.output))

\* the stream of execution e waits in a read of a pipe that holds nothing
\* and is still open
WaitsOn(e, pipe) ==
    /\ stream[e].pc \in {"read_stdout", "read_stderr"}
    /\ PipeOf(stream[e].pc) = pipe
    /\ ~PipeReady(stream[e].target, pipe)

\* C29: the stream never waits on one pipe while the other holds data: no
\* read waits on standard output, open and silent, while standard error
\* holds data that was not read, nor the other way round.
C29_NeverBlocksWithData ==
    \A e \in Execs :
        /\ WaitsOn(e, "stdout") => proc[stream[e].target].stderr = <<>>
        /\ WaitsOn(e, "stderr") => proc[stream[e].target].stdout = <<>>

\* C30: the output a streaming call accumulates and returns is what its
\* child wrote, in the order the child wrote it, whichever pipe each write
\* went to.
C30_OutputInProductionOrder ==
    \A e \in Execs :
        (CompletedNormally(e) /\ call[e].stream_output /\ ~call[e].background)
        => call[e].output = Decode(Join(proc[e].written))

(***************************************************************************)
(* Fairness: the event loop resumes a coroutine whose await has completed  *)
(* and collects the exit status of a child that ended, and the operating   *)
(* system ends a child that does not ignore the SIGTERM it was sent.       *)
(* Nothing makes a child write or end by itself, a timeout expire, the     *)
(* clock advance or a caller call.                                         *)
(***************************************************************************)
Resumed(e) ==
    \/ register_process(e)
    \/ stream_read_stdout(e)
    \/ stream_read_stderr(e)
    \/ stream_sleep(e)
    \/ streaming_terminated(e)
    \/ monitor_start(e)
    \/ monitor_terminated(e)
    \/ run_local_completed(e)
    \/ run_local_terminated(e)

FairSpec ==
    /\ Init
    /\ [][Next]_vars
    /\ \A e \in Execs :
        /\ WF_vars(Resumed(e))
        /\ WF_vars(ChildTerminated(e))
        /\ WF_vars(ChildReaped(e))

\* a background execution still has its monitor task
Monitored(e) == mon[e] \in {"created", "streaming", "terminate_wait"}

\* FairBackground: execution 1 is a background execution, whose child may
\* ignore SIGTERM; execution 2 is a foreground call made while 1 has its
\* monitor task, whose child honours SIGTERM.  No sink, the default timeout,
\* at most MaxWritesConcurrent writes of a child, to standard output.  The
\* fairness is that of FairSpec, for the foreground call and its child only:
\* nothing is assumed of the progress of the background execution
NextBackground ==
    \/ \E ignores \in BOOLEAN :
         execute_command(1, <<"l","s">>, 0, TRUE, TRUE, NoDir, TRUE, ignores)
    \/ \E stream_output \in BOOLEAN, working_dir \in WorkingDirArgs :
         /\ Monitored(1)
         /\ execute_command(2, <<"l","s">>, 0, stream_output, FALSE,
                            working_dir, TRUE, FALSE)
    \/ \E e \in Execs : register_process(e)
    \/ \E e \in Execs : stream_read_stdout(e)
    \/ \E e \in Execs : stream_read_stderr(e)
    \/ \E e \in Execs : stream_sleep(e)
    \/ \E e \in Execs : streaming_timeout(e)
    \/ \E e \in Execs : streaming_terminated(e)
    \/ \E e \in Execs : monitor_start(e)
    \/ \E e \in Execs : monitor_timeout(e)
    \/ \E e \in Execs : monitor_terminated(e)
    \/ \E e \in Execs : run_local_completed(e)
    \/ \E e \in Execs : run_local_timeout(e)
    \/ \E e \in Execs : run_local_terminated(e)
    \/ \E e \in Execs :
         ChildWrite(e, "stdout", <<"f","a","t">>, MaxWritesConcurrent)
    \/ \E e \in Execs : ChildExit(e, 0)
    \/ \E e \in Execs : ChildTerminated(e)
    \/ \E e \in Execs : ChildReaped(e)

FairBackground ==
    /\ Init
    /\ [][NextBackground]_vars
    /\ WF_vars(Resumed(2))
    /\ WF_vars(ChildTerminated(2))
    /\ WF_vars(ChildReaped(2))

\* C27: a foreground call made while a background execution is running, or
\* while its monitor handles its timeout, returns once its own child has
\* ended, whatever the background execution and its monitor do or fail to
\* do.
C27_ForegroundNotDelayed ==
    (call[2].pc # "idle" /\ proc[2].state \in {"ended", "exited"})
        ~> Returned(2)

\* the foreground call has run and returned while the monitor of the
\* background execution still waits for a child that ignores SIGTERM
C27_Witness ==
    /\ mon[1] = "terminate_wait" /\ proc[1].state = "running"
    /\ Returned(2) /\ call[2].failure = "none" /\ proc[2].state = "exited"

\* SpecStreaming: one streaming execution, foreground or background, with a
\* sink set before the call, whose child writes to both pipes while the
\* clock runs up to MaxStreamNow; the child writes MaxStreamWrites times at
\* most
NextStreaming ==
    \/ TickUpTo(MaxStreamNow)
    \/ call[1].pc = "idle" /\ set_broadcast_function
    \/ \E background \in BOOLEAN :
         /\ broadcast_message = "set"
         /\ execute_command(1, <<"l","s">>, 0, TRUE, background, NoDir,
                            TRUE, FALSE)
    \/ register_process(1)
    \/ stream_read_stdout(1)
    \/ stream_read_stderr(1)
    \/ stream_sleep(1)
    \/ streaming_timeout(1)
    \/ streaming_terminated(1)
    \/ monitor_start(1)
    \/ monitor_timeout(1)
    \/ monitor_terminated(1)
    \/ \E pipe \in {"stdout", "stderr"} :
         ChildWrite(1, pipe, <<"f","a","t">>, MaxStreamWrites)
    \/ ChildExit(1, 0)
    \/ ChildTerminated(1)
    \/ ChildReaped(1)

SpecStreaming == Init /\ [][NextStreaming]_vars

\* the positions of the 'streaming' events of execution e
StreamingAt(e) ==
    {i \in 1..Len(events[e]) : events[e][i].type = "streaming"}

\* C31: within one execution, any two 'streaming' notifications, of
\* standard output or of standard error, are at least streaming_interval
\* apart.
C31_StreamingInterval ==
    \A e \in Execs : \A i \in StreamingAt(e), j \in StreamingAt(e) :
        i < j => events[e][j].at - events[e][i].at >= streaming_interval

\* an execution has notified standard output and, an interval later,
\* standard error
C31_Witness ==
    \E i \in StreamingAt(1), j \in StreamingAt(1) :
        /\ i < j
        /\ events[1][i].kind = "stdout"
        /\ events[1][j].kind = "stderr"
        /\ events[1][j].at = events[1][i].at + streaming_interval

\* the loop of _stream_process_output of execution e is running
InReadLoop(e) == stream[e].pc \in {"read_stdout", "read_stderr", "sleep"}

\* chunk.decode('utf-8', errors='replace') of every chunk
DecodeAll(chunks) == [i \in 1..Len(chunks) |-> Decode(chunks[i])]

\* C32: while the read loop of an execution runs, the output buffer of the
\* record the loop holds equals the local accumulation of the loop, and the
\* string the loop returns is the concatenation of the chunks it read from
\* the two pipes, each once.
C32_BufferIsAccumulation ==
    \A e \in Execs :
        /\ InReadLoop(e) =>
              record[stream[e].target].output = stream[e].accumulated_output
        /\ stream[e].returned =>
              Join(stream[e].accumulated_output)
                  = Join(DecodeAll(stream[e].chunks))

\* the directories in which the directory change of call c, made alone in
\* directory dir, can leave the working directory when it meets no failure:
\* lines 192-194 and 323-365
CdAlone(dir, c) ==
    LET current_dir == IF c.working_dir # NoDir THEN c.working_dir ELSE dir
        target_dir == CdTarget(c)
        new_dir == join(current_dir, target_dir)
    IN  IF target_dir = <<".", ".">> THEN {dirname(current_dir)}
        ELSE IF StartsWith(target_dir, <<"/">>) THEN {target_dir}
        ELSE {IF exists THEN new_dir ELSE current_dir :
                exists \in CheckResults(new_dir)}

\* the directories in which the calls of es, made one at a time in some
\* order from one of dirs, can leave the working directory
RECURSIVE SerialFrom(_, _)
SerialFrom(dirs, es) ==
    IF es = {} THEN dirs
    ELSE UNION {SerialFrom(UNION {CdAlone(dir, call[e]) : dir \in dirs},
                           es \ {e}) : e \in es}

\* the calls made so far
Made == {e \in Execs : call[e].pc # "idle"}

\* C33: once the directory changes made so far have all returned, none
\* having met a failure, the working directory is one that making them one
\* at a time, in some order, from the initial working directory can leave.
C33_CdSerializable ==
    (\A e \in Made : Returned(e) /\ call[e].failure = "none")
        => working_directory \in SerialFrom({WorkspaceDir}, Made)

\* SpecInstallConcurrent: overlapping installs with pip, of one package and
\* of that package with another, without a sink; the children are created,
\* write nothing and end with an exit code or by the timeout
NextInstallConcurrent ==
    \/ \E e \in Execs, command \in PipCommands :
         execute_command_install(e, command, 0, NoDir, TRUE, FALSE)
    \/ \E e \in Execs : register_process(e)
    \/ \E e \in Execs : stream_read_stdout(e)
    \/ \E e \in Execs : stream_read_stderr(e)
    \/ \E e \in Execs : stream_sleep(e)
    \/ \E e \in Execs : streaming_timeout(e)
    \/ \E e \in Execs : streaming_terminated(e)
    \/ \E e \in Execs, code \in ExitCodes : ChildExit(e, code)
    \/ \E e \in Execs : ChildTerminated(e)
    \/ \E e \in Execs : ChildReaped(e)

SpecInstallConcurrent == Init /\ [][NextInstallConcurrent]_vars

\* execution e has spawned an install: its handler went past the check of
\* installed_packages and a child was created for its install command
SpawnedInstall(e) == call[e].manager # "none" /\ proc[e].state # "none"

\* neither call was made after the other had ended
Overlapping(d, e) ==
    d \notin call[e].preceded_by /\ e \notin call[d].preceded_by

\* C34: two overlapping install commands of one package manager that
\* request the same package, not installed yet, never both spawn an
\* installation of it.
C34_InstallCheckAtomic ==
    \A d \in Execs, e \in Execs :
        /\ d # e
        /\ Overlapping(d, e)
        /\ SpawnedInstall(d) /\ SpawnedInstall(e)
        /\ call[d].manager = call[e].manager
        => Range(call[d].new_packages) \cap Range(call[e].new_packages) = {}

\* the types of the terminal event of execution e: those of its monitor
\* once it has one, those of execute_command otherwise
TerminalTypes(e) ==
    IF mon[e] # "none"
    THEN {"background_complete", "background_timeout", "background_error"}
    ELSE {"output", "error"}

\* C35: the sink calls of an execution made with a sink set are one
\* 'command' event first, then 'streaming' events, then one terminal event
\* and nothing after it; an execution that has ended has its terminal
\* event.
C35_PhaseOrder ==
    \A e \in Execs :
        LET ev == events[e]
        IN  /\ \A i \in 1..Len(ev) :
                  /\ ev[i].type = "command" <=> i = 1
                  /\ ev[i].type \in {"command", "streaming"}
                                       \cup TerminalTypes(e)
                  /\ ev[i].type \in TerminalTypes(e) => i = Len(ev)
            /\ ev # <<>> /\ Terminal(e) =>
                  ev[Len(ev)].type \in TerminalTypes(e)

\* the step in which execution e gives its timeout result or its monitor
\* reports its timeout: process.wait() has returned after the timeout
TimeoutReported(e) ==
    \/ /\ call[e].pc \in {"terminate_wait", "communicate_terminate_wait"}
       /\ call'[e].pc \in {"returned", "raised"}
    \/ mon[e] = "terminate_wait" /\ mon'[e] = "done"

\* C36: when execute_command returns a timeout result, or a monitor reports
\* a background timeout, the child process of that execution has exited.
C36_TimedOutChildExited ==
    [][\A e \in Execs : TimeoutReported(e) => proc[e].state = "exited"]_vars

\* SpecCleaner: _clean_command applied to a command of CleanerCommands
InitCleaner ==
    /\ Constructed
    /\ classifier = NoClassifier
    /\ cleaner \in [command : CleanerCommands, cleaned : {<<>>},
                     called : {FALSE}]
    /\ status = NoStatus

\* a call of _clean_command
clean_command_call ==
    /\ ~cleaner.called
    /\ cleaner' = [cleaner EXCEPT !.cleaned = clean_command(cleaner.command),
                                  !.called = TRUE]
    /\ UNCHANGED <<now, broadcast_message, command_history, output_history,
                   working_directory, running_processes, record, proc, call,
                   stream, mon, events, shut, listed, installed_packages,
                   classifier, status>>

NextCleaner == clean_command_call

SpecCleaner == InitCleaner /\ [][NextCleaner]_vars

\* s has no whitespace at either end, no backslash followed by a newline
\* and no two whitespace characters in a row
Normalized(s) ==
    /\ s # <<>> => s[1] \notin Whitespace /\ s[Len(s)] \notin Whitespace
    /\ \A i \in 1..(Len(s) - 1) :
          /\ ~(s[i] = "\\" /\ s[i + 1] = "\n")
          /\ ~(s[i] \in Whitespace /\ s[i + 1] \in Whitespace)

\* C37: what _clean_command returns has no leading or trailing whitespace,
\* no line continuation and no run of whitespace, and _clean_command
\* returns it unchanged.
C37_CleanNormalForm ==
    cleaner.called =>
        /\ Normalized(cleaner.cleaned)
        /\ clean_command(cleaner.cleaned) = cleaner.cleaned

(***************************************************************************)
(* get_status (utils.py).                                                  *)
(***************************************************************************)
\* Python: list[-n:]
LastEntries(list, n) ==
    IF Len(list) <= n THEN list
    ELSE SubSeq(list, Len(list) - n + 1, Len(list))

\* get_status, lines 78-90: the terminal history
get_status(commands, outputs) ==
    LET shown_commands ==
            IF commands # <<>> THEN LastEntries(commands, StatusWindow)
            ELSE <<>>
        shown_outputs ==
            IF outputs # <<>> THEN LastEntries(outputs, StatusWindow)
            ELSE <<>>
        n == IF Len(shown_commands) < Len(shown_outputs)
             THEN Len(shown_commands) ELSE Len(shown_outputs)
    IN  [i \in 1..n |-> [command |-> shown_commands[i],
                         output |-> shown_outputs[i]]]

\* the command of the i-th call, 'echo i', and the output of its execution
EchoCommand(i) == <<"e","c","h","o"," ">> \o DecStr(i)
EchoOutput(i) == DecStr(i) \o <<"\n">>

\* SpecStatus: get_status after n calls of execute_command, made one after
\* the other, of which the first m have returned and appended their
\* output, the others being under way: the histories are index-aligned
InitStatus ==
    /\ ConstructedButHistories
    /\ classifier = NoClassifier
    /\ cleaner = NoCleaner
    /\ status = NoStatus
    /\ \E n \in 0..MaxHistory : \E m \in 0..n :
         /\ command_history = [i \in 1..n |-> EchoCommand(i)]
         /\ output_history = [i \in 1..m |-> EchoOutput(i)]

\* a call of get_status
get_status_call ==
    /\ ~status.called
    /\ status' = [history |-> get_status(command_history, output_history),
                  called |-> TRUE]
    /\ UNCHANGED <<now, broadcast_message, command_history, output_history,
                   working_directory, running_processes, record, proc, call,
                   stream, mon, events, shut, listed, installed_packages,
                   classifier, cleaner>>

NextStatus == get_status_call

SpecStatus == InitStatus /\ [][NextStatus]_vars

\* C38: every entry of the terminal history get_status returns pairs a
\* command with the output of the execution of that command, whatever the
\* lengths of the two histories.
C38_StatusPairsSameExecution ==
    status.called =>
        \A k \in 1..Len(status.history) :
            \E i \in 1..Len(command_history) :
                /\ status.history[k].command = EchoCommand(i)
                /\ status.history[k].output = EchoOutput(i)

====
